---- MODULE Spec2Model ----
(***************************************************************************)
(* Model of the edge-tts browser extension's streaming client:             *)
(*   - browserSplitTextByByteLength (text segmenter),                      *)
(*   - BrowserCommunicate.stream / _stream / connectWebSocket and the      *)
(*     socket callbacks (src/utils/browserCommunicate.ts),                 *)
(*   - TTSPlayer.play: media source, stream loop and checkAndEndStream     *)
(*     (src/utils/ttsPlayer.ts).                                           *)
(***************************************************************************)
EXTENDS Integers, Sequences, FiniteSets, TLC

(***************************************************************************)
(* Bounds                                                                  *)
(***************************************************************************)
MaxLen == 4          \* longest input text (in characters) given to the segmenter
MaxBudget == 3       \* largest byte budget given to the segmenter

(***************************************************************************)
(* Text, UTF-8 encoding and decoding                                       *)
(*                                                                         *)
(* A character is one of the names below; a byte is <<c, i>>, the i-th     *)
(* byte of the UTF-8 encoding of character c.  "FFFD" is U+FFFD, the       *)
(* replacement character TextDecoder emits for a malformed sequence.       *)
(***************************************************************************)
Alphabet == {"a", "sp", "nl", "e2", "e3"}
    \* "a": a one-byte letter; "sp": ' '; "nl": '\n';
    \* "e2": a two-byte letter (U+00E9); "e3": a three-byte letter (U+20AC)

Width(c) == CASE c = "e2" -> 2
              [] c = "e3" -> 3
              [] c = "FFFD" -> 3
              [] OTHER -> 1

IsWhite(c) == c \in {"sp", "nl"}

RECURSIVE TextEncode(_)
\* new TextEncoder().encode(s)
TextEncode(s) ==
    IF s = <<>> THEN <<>>
    ELSE [i \in 1..Width(Head(s)) |-> <<Head(s), i>>] \o TextEncode(Tail(s))

\* number of bytes of b, from its lead byte on, that belong to one character
SeqRun(b) ==
    LET c == b[1][1]
        Ok(j) == j <= Len(b) /\ j <= Width(c) /\ \A i \in 1..j : b[i] = <<c, i>>
    IN  CHOOSE j \in 1..Width(c) : Ok(j) /\ ~Ok(j + 1)

RECURSIVE TextDecode(_)
\* new TextDecoder().decode(b): non-fatal, a truncated sequence and every
\* stray continuation byte decode to one U+FFFD each
TextDecode(b) ==
    IF b = <<>> THEN <<>>
    ELSE IF b[1][2] # 1
         THEN <<"FFFD">> \o TextDecode(Tail(b))
         ELSE LET k == SeqRun(b)
                  rest == SubSeq(b, k + 1, Len(b))
              IN  IF k = Width(b[1][1])
                  THEN <<b[1][1]>> \o TextDecode(rest)
                  ELSE <<"FFFD">> \o TextDecode(rest)

\* String.prototype.lastIndexOf(c), 0-based, -1 when absent
LastIndexOf(s, c) ==
    LET hits == {i \in 1..Len(s) : s[i] = c}
    IN  IF hits = {} THEN 0 - 1
        ELSE (CHOOSE i \in hits : \A j \in hits : j <= i) - 1

\* String.prototype.substring(0, n)
Substring0(s, n) == SubSeq(s, 1, n)

\* Uint8Array.prototype.slice(from)  /  slice(0, to), 0-based, clamped
SliceFrom(b, from) == SubSeq(b, from + 1, Len(b))
SliceTo(b, to) == SubSeq(b, 1, IF to < Len(b) THEN to ELSE Len(b))

RECURSIVE TrimLeft(_)
TrimLeft(s) == IF s # <<>> /\ IsWhite(Head(s)) THEN TrimLeft(Tail(s)) ELSE s

RECURSIVE TrimRight(_)
TrimRight(s) ==
    IF s # <<>> /\ IsWhite(s[Len(s)]) THEN TrimRight(SubSeq(s, 1, Len(s) - 1)) ELSE s

\* String.prototype.trim()
Trim(s) == TrimRight(TrimLeft(s))

(***************************************************************************)
(* browserSplitTextByByteLength                                            *)
(***************************************************************************)
\* the split point of one loop iteration, were a newline or a space at index
\* 0 of the window taken as a split point too
SplitAtFromZero(buffer, byteLength) ==
    LET At(sliceText) ==
            LET lastNewline == LastIndexOf(sliceText, "nl")
                lastSpace == LastIndexOf(sliceText, "sp")
            IN  IF lastNewline >= 0
                THEN Len(TextEncode(Substring0(sliceText, lastNewline)))
                ELSE IF lastSpace >= 0
                     THEN Len(TextEncode(Substring0(sliceText, lastSpace)))
                     ELSE byteLength
    IN  CHOOSE splitAt \in {At(sliceText) :
                               sliceText \in {TextDecode(slice) :
                                                 slice \in {SliceTo(buffer, byteLength)}}} : TRUE

\* the split point of one loop iteration: the last newline of the window, else
\* its last space, else the byte budget (`slice` and `sliceText` are bound
\* once each, as the constants of the code are)
SplitAt(buffer, byteLength) ==
    LET At(sliceText) ==
            LET lastNewline == LastIndexOf(sliceText, "nl")
                lastSpace == LastIndexOf(sliceText, "sp")
            IN  IF lastNewline > 0
                THEN Len(TextEncode(Substring0(sliceText, lastNewline)))
                ELSE IF lastSpace > 0
                     THEN Len(TextEncode(Substring0(sliceText, lastSpace)))
                     ELSE byteLength
    IN  CHOOSE splitAt \in {At(sliceText) :
                               sliceText \in {TextDecode(slice) :
                                                 slice \in {SliceTo(buffer, byteLength)}}} : TRUE

\* the chunk one loop iteration yields (<<>>: nothing is yielded)
ChunkOf(buffer, splitAt) ==
    CHOOSE encoded \in {TextEncode(chunkText) :
                           chunkText \in {Trim(decoded) :
                                             decoded \in {TextDecode(chunk) :
                                                             chunk \in {SliceTo(buffer, splitAt)}}}} : TRUE

(***************************************************************************)
(* Bounds of the stream model                                              *)
(***************************************************************************)
MaxSegs == 2         \* most segments the text splits into
MaxFrames == 4       \* most inbound frames the service sends during one stream
MaxCalls == 2        \* number of stream() invocations on the instance
MaxOffset == 1       \* largest Offset of a WordBoundary entry
MaxDuration == 1     \* largest Duration of a WordBoundary entry
MaxAppendErrors == 1 \* most appendBuffer calls of a play() that throw
MaxPlays == 2        \* most calls of play() on the player
MaxToggles == 1      \* most calls of togglePause() during a play()
MaxEntries == 2      \* most entries of the Metadata array of a frame
MaxSetups == 3       \* number of setupOffscreenDocument() calls

maxRetries == 3      \* connectWebSocket

(***************************************************************************)
(* browserGetHeadersAndDataFromBinary.  The bytes of a header block are    *)
(* ASCII characters or whole ASCII words, named by strings (":" is the     *)
(* colon, "CR" and "LF" the line end); payload bytes are opaque.           *)
(***************************************************************************)
RECURSIVE SplitOn(_, _)
\* String.prototype.split(sep), sep a non-empty sequence of characters
SplitOn(str, sep) ==
    LET hits == {i \in 1..(Len(str) - Len(sep) + 1) : SubSeq(str, i, i + Len(sep) - 1) = sep}
    IN  IF hits = {} THEN <<str>>
        ELSE LET i == CHOOSE h \in hits : \A g \in hits : h <= g
             IN  <<SubSeq(str, 1, i - 1)>> \o SplitOn(SubSeq(str, i + Len(sep), Len(str)), sep)

\* String.prototype.split(sep, limit): the first `limit` pieces of the split
SplitLimit(parts, limit) ==
    IF Len(parts) <= limit THEN parts ELSE SubSeq(parts, 1, limit)

RECURSIVE ParseHeaderLines(_, _)
\* the loop over headerLines: headers[key] = value.trim() when both the key
\* and the value are non-empty
ParseHeaderLines(headerLines, headers) ==
    IF headerLines = <<>> THEN headers
    ELSE LET parts == SplitLimit(SplitOn(Head(headerLines), <<":">>), 2)
             key == parts[1]
             hasValue == Len(parts) >= 2 /\ parts[2] # <<>>
             next == IF key # <<>> /\ hasValue
                     THEN [k \in DOMAIN headers \cup {key} |->
                              IF k = key THEN Trim(parts[2]) ELSE headers[k]]
                     ELSE headers
         IN  ParseHeaderLines(Tail(headerLines), next)

\* browserGetHeadersAndDataFromBinary(message): [headers, data], or "throw"
browserGetHeadersAndDataFromBinary(message) ==
    IF Len(message) < 2 THEN "throw"
    ELSE LET headerLength == message[1] * 256 + message[2]
             headers ==
                 IF headerLength > 0 /\ headerLength + 2 <= Len(message)
                 THEN ParseHeaderLines(
                          SplitOn(SubSeq(message, 3, headerLength + 2), <<"CR", "LF">>), <<>>)
                 ELSE <<>>
         IN  [headers |-> headers,
              data |-> SubSeq(message, headerLength + 3, Len(message))]

(***************************************************************************)
(* Inbound frames.  A text frame is given by its Path header and, for      *)
(* audio.metadata, the entries of its Metadata array; a binary frame by    *)
(* what browserGetHeadersAndDataFromBinary finds in it: whether it has the *)
(* two length bytes, its Path and Content-Type headers ("" when absent)    *)
(* and the length of its payload.                                          *)
(***************************************************************************)
TextFrame(path, meta) ==
    [type |-> "text", path |-> path, meta |-> meta,
     short |-> FALSE, ctype |-> "", payload |-> 0]

BinaryFrame(short, path, ctype, payload) ==
    [type |-> "binary", path |-> path, meta |-> <<>>,
     short |-> short, ctype |-> ctype, payload |-> payload]

Entry(type, offset, duration) == [Type |-> type, Offset |-> offset, Duration |-> duration]

BoundaryFrames ==
    {TextFrame("audio.metadata", <<Entry("WordBoundary", o, d)>>) :
        o \in 0..MaxOffset, d \in 0..MaxDuration}

TurnEndFrame == TextFrame("turn.end", <<>>)

AudioFrame == BinaryFrame(FALSE, "audio", "audio/mpeg", 1)

\* a header of a decoded binary frame ("" when absent)
HeaderOf(headers, key) == IF key \in DOMAIN headers THEN headers[key][1] ELSE ""

\* a binary frame as onmessage sees it, from its bytes
FrameOf(message) ==
    IF Len(message) < 2 THEN BinaryFrame(TRUE, "", "", 0)
    ELSE LET decoded == browserGetHeadersAndDataFromBinary(message)
         IN  BinaryFrame(FALSE, HeaderOf(decoded.headers, <<"Path">>),
                         HeaderOf(decoded.headers, <<"Content-Type">>), Len(decoded.data))

\* an audio frame cut short in transit: its length prefix announces the 7
\* bytes of its header block, of which 3 arrived
TruncatedFrame == FrameOf(<<0, 7, "Path", ":", "audio">>)

\* the frames the service sends in the stream model: word boundaries, a
\* metadata entry of an unknown type, turn.end, an ignored path, audio, the
\* empty audio frame that ends a turn, a binary frame on a wrong path and
\* a truncated binary frame
Frames ==
    BoundaryFrames
    \cup {TextFrame("audio.metadata", <<Entry("SentenceBoundary", 0, 0)>>),
          TurnEndFrame,
          TextFrame("response", <<>>),
          AudioFrame,
          BinaryFrame(FALSE, "audio", "audio/mpeg", 0),
          BinaryFrame(FALSE, "other", "", 1),
          TruncatedFrame}

(***************************************************************************)
(* Items of messageQueue: a chunk (audio or WordBoundary), an Error, or    *)
(* 'close'.  n is the position of the frame the item was decoded from in   *)
(* the arrival order of the frames (0 for items not made from a frame).    *)
(***************************************************************************)
NoItem == [kind |-> "none", n |-> 0, err |-> "", offset |-> 0, duration |-> 0]
AudioItem(n) == [kind |-> "audio", n |-> n, err |-> "", offset |-> 0, duration |-> 0]
BoundaryItem(n, offset, duration) ==
    [kind |-> "WordBoundary", n |-> n, err |-> "", offset |-> offset, duration |-> duration]
ErrorItem(n, err) == [kind |-> "error", n |-> n, err |-> err, offset |-> 0, duration |-> 0]
CloseItem == [kind |-> "close", n |-> 0, err |-> "", offset |-> 0, duration |-> 0]

\* the chunk of a WordBoundary entry, were its offset left uncompensated
BoundaryChunkRaw(metaObj, comp, n) == BoundaryItem(n, metaObj.Offset, metaObj.Duration)

\* the chunk parseMetadata returns for a WordBoundary entry
BoundaryChunk(metaObj, comp, n) == BoundaryItem(n, metaObj.Offset + comp, metaObj.Duration)

RECURSIVE parseMetadata(_, _, _)
\* BrowserCommunicate.parseMetadata: the chunk of the first WordBoundary
\* entry, or the Error it throws
parseMetadata(entries, comp, n) ==
    IF entries = <<>> THEN ErrorItem(n, "UnexpectedResponse")
    ELSE LET metaObj == Head(entries)
         IN  IF metaObj.Type = "WordBoundary"
             THEN BoundaryChunk(metaObj, comp, n)
             ELSE IF metaObj.Type = "SessionEnd"
                  THEN parseMetadata(Tail(entries), comp, n)
                  ELSE ErrorItem(n, "UnknownResponse")

\* what the ArrayBuffer branch of onmessage pushes, were it to refuse an
\* audio frame that has no Content-Type
ArrayBufferItemTyped(frame, n) ==
    IF frame.short THEN ErrorItem(n, "UnexpectedResponse")
    ELSE IF frame.path # "audio" THEN ErrorItem(n, "UnexpectedResponse")
    ELSE LET contentType == frame.ctype
             isValidAudio == contentType \in {"audio/mpeg", "audio/webm", "audio/webm; codec=opus"}
         IN  IF ~isValidAudio
             THEN IF frame.payload > 0 THEN ErrorItem(n, "UnexpectedResponse") ELSE NoItem
             ELSE IF frame.payload = 0 THEN NoItem
             ELSE AudioItem(n)

\* what the ArrayBuffer branch of onmessage pushes for a frame (NoItem:
\* nothing)
ArrayBufferItem(frame, n) ==
    IF frame.short THEN ErrorItem(n, "UnexpectedResponse")
    ELSE IF frame.path # "audio" THEN ErrorItem(n, "UnexpectedResponse")
    ELSE LET contentType == frame.ctype
             isValidAudio ==
                 \/ contentType = "audio/mpeg"
                 \/ contentType \in {"audio/webm", "audio/webm; codec=opus"}
         IN  IF ~isValidAudio /\ contentType # ""
             THEN IF frame.payload > 0 THEN ErrorItem(n, "UnexpectedResponse") ELSE NoItem
             ELSE IF frame.payload = 0 THEN NoItem
             ELSE AudioItem(n)

\* what reader.onload pushes, were it to take an empty payload for audio
BinaryItemKeepsEmpty(frame, n) ==
    IF frame.short THEN ErrorItem(n, "UnexpectedResponse")
    ELSE IF frame.path # "audio" THEN ErrorItem(n, "UnexpectedResponse")
    ELSE LET contentType == frame.ctype
             isValidAudio == contentType \in {"audio/mpeg", "audio/webm", "audio/webm; codec=opus"}
         IN  IF ~isValidAudio /\ contentType # ""
             THEN IF frame.payload > 0 THEN ErrorItem(n, "UnexpectedResponse") ELSE NoItem
             ELSE AudioItem(n)

\* what reader.onload of the Blob branch of onmessage pushes for a frame
\* (NoItem: nothing)
BinaryItem(frame, n) ==
    IF frame.short THEN ErrorItem(n, "UnexpectedResponse")
    ELSE IF frame.path # "audio" THEN ErrorItem(n, "UnexpectedResponse")
    ELSE LET contentType == frame.ctype
             isValidAudio == contentType \in {"audio/mpeg", "audio/webm", "audio/webm; codec=opus"}
         IN  IF ~isValidAudio /\ contentType # ""
             THEN IF frame.payload > 0 THEN ErrorItem(n, "UnexpectedResponse") ELSE NoItem
             ELSE IF frame.payload = 0 THEN NoItem
             ELSE AudioItem(n)

Segs == 1..MaxSegs
Calls == 1..MaxCalls

VARIABLES
    \* --- browserSplitTextByByteLength, run on its own ---
    splitText,      \* the text argument
    splitBudget,    \* the byteLength argument
    splitBuffer,    \* the generator's `buffer`
    splitOut,       \* the chunks yielded so far
    splitPc,        \* "idle" | "loop" | "done" | "threw"
    \* --- browserGetHeadersAndDataFromBinary, run on its own ---
    binHeaders,     \* the header map a binary frame is built from
    binPayload,     \* the payload bytes it is built from
    binMessage,     \* the bytes of the frame
    binOut,         \* what browserGetHeadersAndDataFromBinary returned for binMessage
    binPc,          \* "idle" | "input" | "encoded" | "decoded"
    \* --- BrowserCommunicate ---
    binaryType,         \* WebSocket.binaryType of the host: "blob" | "arraybuffer"
    nSegs,              \* number of chunks this.texts yields
    segIdx,             \* chunks taken from this.texts so far (the current segment)
    streamWasCalled,    \* state.streamWasCalled
    offsetCompensation, \* state.offsetCompensation
    lastDurationOffset, \* state.lastDurationOffset
    gen,                \* the generator of each stream() call: "fresh" | "running" | "done" | "failed"
                        \*   | "returned" (left by its consumer's return)
    genErr,             \* the error each generator threw ("" when none)
    pc,                 \* the running generator: "idle" | "texts" | "connect" | "backoff" | "loop" | "done" | "failed" | "returned"
    attempt,            \* connectWebSocket's attempt
    waited,             \* the backoff delays (in seconds) the running connectWebSocket has waited
    wsState,            \* per segment, its socket: "none" | "open" | "closing" | "closed"
    timerArmed,         \* per segment, the no-data timer is pending
    arrived,            \* the number of frames the sockets have received so far
    readers,            \* the FileReaders still reading a Blob: [seg, item], item being what
                        \*   onload will push for the frame read
    audioWasReceived,   \* _stream's audioWasReceived
    \* --- history ---
    lastYieldN,         \* arrival position of the frame of the chunk the current _stream yielded last
    audioYielded,       \* number of audio chunks the current _stream has yielded
    errSeg,             \* the segment of the first Error pushed on a messageQueue (0: none)
    outcomes,           \* per segment, the number of times its _stream ended (returned or threw)
                        \*   on an item of its messageQueue
    heard,              \* per segment, its socket has had a message, an error or a close event
    expiry,             \* per segment, its no-data timer: "none" (has not expired) | "silent"
                        \*   (expired with nothing heard before) | "heard"
    turnEnds,           \* number of turn.end frames handled
    rawLast,            \* Offset + Duration of the last WordBoundary since the last turn.end
    rawEndSum,          \* sum of rawLast over the turn.end frames handled
    \* --- TTSPlayer.play ---
    playPc,         \* "idle" | "attached" | "detached" | "streaming" | "returned" | "draining"
                    \*   | "settled"
    uiState,        \* the callback reported last: "IDLE" | "LOADING" | "PLAYING" | "PAUSED"
                    \*   | "STOPPED" | "ERROR"
    isActive,       \* isActive of the closure of play() (FALSE before play())
    audioElement,   \* this.audioElement: "null" | "set"
    promise,        \* the promise play() returns: "none" | "pending" | "resolved" | "rejected"
    msState,        \* mediaSource.readyState: "closed" | "open" | "ended"
    chunks,         \* length of the `chunks` array
    sbUpdating,     \* sourceBuffer.updating
    updateEnds,     \* number of 'updateend' events queued and not yet dispatched
    retryTimers,    \* number of pending 100 ms timers set by the catch of appendNextChunk
    appendErrors,   \* number of appendBuffer calls that threw
    appended,       \* number of sourceBuffer.appendBuffer calls
    isFirstChunk,   \* isFirstChunk
    audioEvents,    \* the play and pause events of the audio element not yet dispatched
    audioPaused,    \* audioElement.paused
    playCalls,      \* number of audioElement.play() calls made by appendNextChunk
    checkTimer,     \* the 100 ms timer of checkAndEndStream is pending
    enqueued,       \* number of chunks pushed on `chunks`
    errorStates,    \* number of 'error' playback states the offscreen document has sent
    toggles,        \* number of togglePause() calls
    received,       \* the frames received so far: "none" | "audio" (one valid audio frame)
                    \*   | "audio,turn.end" (then turn.end) | "other"
    \* --- TTSPlayer across calls of play() ---
    nPlays,               \* number of play() calls so far: the sessions 1..nPlays exist
    pendingInits,         \* initTTS calls that are at an await before their play()
    currentTTSDeactivate, \* the session this.currentTTSDeactivate deactivates (0: null)
    audioElementOf,       \* the session whose media source this.audioElement carries (0: null)
    sActive,              \* per session, isActive
    sMedia,               \* per session, mediaSource.readyState: "closed" | "open"
    sPc,                  \* per session: "none" | "attached" | "streaming" | "returned"
    sChunks,              \* per session, length of `chunks`
    sUpdating,            \* per session, sourceBuffer.updating
    sUpdateEnds,          \* per session, 'updateend' events queued
    sAppended,            \* per session, number of appendBuffer calls
    sYielded,             \* audio chunks the streams of all sessions have yielded
    \* --- websocket.onmessage, run on one frame ---
    decIn,          \* the frame: a text frame, or what the service put in a binary frame
    decBytes,       \* the bytes of a binary frame
    decBt,          \* what event.data is: "string" | "arraybuffer" | "blob"
    decComp,        \* state.offsetCompensation when the frame arrives
    decItem,        \* what was pushed on messageQueue for the frame (NoItem: nothing)
    decPc,          \* "idle" | "received" | "reading" (a FileReader holds it) | "pushed"
    \* --- setupOffscreenDocument of the background script ---
    hasGetContexts,            \* chrome.runtime.getContexts exists in the host
    docExists,                 \* an offscreen document exists
    creatingOffscreenDocument, \* 0 (null) | the call whose creation promise it holds
    oPc,                       \* per call: "idle" | "checking" | "answered" | "waiting"
                               \*   | "creating" | "settled" | "done"
    oAnswer,                   \* per call, what hasOffscreenDocument() resolves to
    oAwaits,                   \* per call, the call whose creation promise it awaits
    oCreates                   \* number of offscreen.createDocument calls

splitVars == <<splitText, splitBudget, splitBuffer, splitOut, splitPc>>

binVars == <<binHeaders, binPayload, binMessage, binOut, binPc>>

sessVars ==
    <<nPlays, pendingInits, currentTTSDeactivate, audioElementOf, sActive, sMedia, sPc,
      sChunks, sUpdating, sUpdateEnds, sAppended, sYielded>>

decodeVars == <<decIn, decBytes, decBt, decComp, decItem, decPc>>

offscreenVars ==
    <<hasGetContexts, docExists, creatingOffscreenDocument, oPc, oAnswer, oAwaits, oCreates>>

auxVars == <<decodeVars, offscreenVars>>

\* what the stream and a play() followed on its own leave alone
pureVars == <<splitVars, binVars, sessVars, auxVars>>

stateVars == <<streamWasCalled, offsetCompensation, lastDurationOffset>>

genVars == <<gen, genErr, pc, attempt, waited, segIdx>>

sockVars == <<wsState, timerArmed, arrived, readers>>

histVars == <<turnEnds, rawLast, rawEndSum>>

loopVars == <<audioWasReceived, lastYieldN, audioYielded>>

streamVars ==
    <<binaryType, nSegs, stateVars, genVars, sockVars, loopVars, errSeg, outcomes, heard, expiry, histVars>>

sinkVars ==
    <<chunks, sbUpdating, appended, isFirstChunk, audioEvents, audioPaused, playCalls,
      retryTimers, appendErrors>>

countVars == <<enqueued, errorStates, toggles>>

playVars ==
    <<playPc, uiState, isActive, audioElement, promise, msState, sinkVars, updateEnds,
      checkTimer, received, countVars>>

vars == <<pureVars, streamVars, playVars>>

SessIdle ==
    /\ nPlays = 0
    /\ pendingInits = 0
    /\ currentTTSDeactivate = 0
    /\ audioElementOf = 0
    /\ sActive = [p \in 1..MaxPlays |-> FALSE]
    /\ sMedia = [p \in 1..MaxPlays |-> "closed"]
    /\ sPc = [p \in 1..MaxPlays |-> "none"]
    /\ sChunks = [p \in 1..MaxPlays |-> 0]
    /\ sUpdating = [p \in 1..MaxPlays |-> FALSE]
    /\ sUpdateEnds = [p \in 1..MaxPlays |-> 0]
    /\ sAppended = [p \in 1..MaxPlays |-> 0]
    /\ sYielded = 0

PlayIdle ==
    /\ playPc = "idle"
    /\ uiState = "IDLE"
    /\ isActive = FALSE
    /\ audioElement = "null"
    /\ promise = "none"
    /\ msState = "closed"
    /\ chunks = 0
    /\ sbUpdating = FALSE
    /\ updateEnds = 0
    /\ retryTimers = 0
    /\ appendErrors = 0
    /\ appended = 0
    /\ isFirstChunk = TRUE
    /\ audioEvents = <<>>
    /\ audioPaused = TRUE
    /\ playCalls = 0
    /\ enqueued = 0
    /\ errorStates = 0
    /\ toggles = 0
    /\ checkTimer = FALSE
    /\ received = "none"

StreamIdle ==
    /\ binaryType = "blob"
    /\ nSegs = 0
    /\ segIdx = 0
    /\ streamWasCalled = FALSE
    /\ offsetCompensation = 0
    /\ lastDurationOffset = 0
    /\ gen = [g \in Calls |-> "fresh"]
    /\ genErr = [g \in Calls |-> ""]
    /\ pc = "idle"
    /\ attempt = 0
    /\ waited = <<>>
    /\ wsState = [s \in Segs |-> "none"]
    /\ timerArmed = [s \in Segs |-> FALSE]
    /\ arrived = 0
    /\ readers = {}
    /\ audioWasReceived = FALSE
    /\ lastYieldN = 0
    /\ audioYielded = 0
    /\ errSeg = 0
    /\ outcomes = [s \in Segs |-> 0]
    /\ heard = [s \in Segs |-> FALSE]
    /\ expiry = [s \in Segs |-> "none"]
    /\ turnEnds = 0
    /\ rawLast = 0
    /\ rawEndSum = 0
    /\ PlayIdle
    /\ SessIdle

RECURSIVE TextsUpTo(_)
TextsUpTo(n) ==
    IF n = 0 THEN {<<>>}
    ELSE LET shorter == TextsUpTo(n - 1)
         IN  shorter \cup {Append(s, c) : s \in {t \in shorter : Len(t) = n - 1}, c \in Alphabet}

DecodeIdle ==
    /\ decIn = TextFrame("", <<>>)
    /\ decBytes = <<>>
    /\ decBt = "string"
    /\ decComp = 0
    /\ decItem = NoItem
    /\ decPc = "idle"

OffscreenIdle ==
    /\ hasGetContexts = TRUE
    /\ docExists = FALSE
    /\ creatingOffscreenDocument = 0
    /\ oPc = [c \in 1..MaxSetups |-> "idle"]
    /\ oAnswer = [c \in 1..MaxSetups |-> FALSE]
    /\ oAwaits = [c \in 1..MaxSetups |-> 0]
    /\ oCreates = 0

SplitIdle ==
    /\ splitText = <<>>
    /\ splitBudget = 1
    /\ splitBuffer = <<>>
    /\ splitOut = <<>>
    /\ splitPc = "idle"

BinaryIdle ==
    /\ binHeaders = <<>>
    /\ binPayload = <<>>
    /\ binMessage = <<>>
    /\ binOut = "none"
    /\ binPc = "idle"

InitSplit ==
    /\ StreamIdle
    /\ BinaryIdle
    /\ DecodeIdle
    /\ OffscreenIdle
    /\ splitText \in TextsUpTo(MaxLen)
    /\ splitBudget \in 0..MaxBudget
    /\ splitBuffer = TextEncode(splitText)
    /\ splitOut = <<>>
    /\ splitPc = "loop"

\* `if (chunkText) yield ...`, were the test left out
YieldAlways(out, chunk) == Append(out, chunk)

\* `if (chunkText) yield new TextEncoder().encode(chunkText)`: the chunks
\* yielded so far, after a piece that trimmed to `chunk`
YieldChunk(out, chunk) == IF chunk # <<>> THEN Append(out, chunk) ELSE out

\* byteLength <= 0: the generator throws on its first pull
SplitThrow ==
    /\ splitPc = "loop"
    /\ splitBudget <= 0
    /\ splitPc' = "threw"
    /\ UNCHANGED <<splitText, splitBudget, splitBuffer, splitOut, streamVars, playVars, binVars, sessVars, auxVars>>

\* one iteration of `while (buffer.length > byteLength)`
SplitStep ==
    /\ splitPc = "loop"
    /\ splitBudget > 0
    /\ Len(splitBuffer) > splitBudget
    /\ \E splitAt \in {SplitAt(splitBuffer, splitBudget)} :
          /\ splitOut' = YieldChunk(splitOut, ChunkOf(splitBuffer, splitAt))
          /\ splitBuffer' = SliceFrom(splitBuffer, splitAt)
    /\ UNCHANGED <<splitText, splitBudget, splitPc, streamVars, playVars, binVars, sessVars, auxVars>>

\* after the loop: the remaining text, trimmed, if not empty
SplitTail ==
    /\ splitPc = "loop"
    /\ splitBudget > 0
    /\ Len(splitBuffer) <= splitBudget
    /\ LET chunk == CHOOSE encoded \in {TextEncode(remainingText) :
                                           remainingText \in {Trim(decoded) :
                                               decoded \in {TextDecode(splitBuffer)}}} : TRUE
       IN  splitOut' = YieldChunk(splitOut, chunk)
    /\ splitPc' = "done"
    /\ UNCHANGED <<splitText, splitBudget, splitBuffer, streamVars, playVars, binVars, sessVars, auxVars>>

NextSplit == SplitThrow \/ SplitStep \/ SplitTail

SpecSplit == InitSplit /\ [][NextSplit]_vars

\* browserSplitTextByByteLength(text, byteLength) is called and the
\* generator pulled for the first time: the text is encoded
SplitCall ==
    /\ splitPc = "idle"
    /\ splitText' \in TextsUpTo(MaxLen)
    /\ splitBudget' \in 0..MaxBudget
    /\ splitBuffer' = TextEncode(splitText')
    /\ splitPc' = "loop"
    /\ UNCHANGED <<splitOut, streamVars, playVars, binVars, sessVars, auxVars>>

InitSplitCall ==
    /\ StreamIdle
    /\ BinaryIdle
    /\ SplitIdle
    /\ DecodeIdle
    /\ OffscreenIdle

NextSplitCall == SplitCall \/ SplitThrow \/ SplitStep \/ SplitTail

\* the generator pulled to its end: a consumer that iterates it runs each
\* iteration of its loop
SpecSplitFair ==
    InitSplitCall /\ [][NextSplitCall]_vars /\ WF_vars(SplitThrow \/ SplitStep \/ SplitTail)

(***************************************************************************)
(* browserGetHeadersAndDataFromBinary, on frames built from a header map   *)
(* and a payload.  Header bytes are ASCII characters, named as in the text *)
(* model (":" is the colon, "CR" and "LF" the line end); payload bytes are *)
(* opaque.                                                                 *)
(***************************************************************************)
MaxValLen == 2       \* longest header value
MaxPayload == 1      \* longest payload

HeaderKeys == {<<"k">>, <<"j">>}
KeyOrder == <<<<"k">>, <<"j">>>>
ValueChars == {"v", ":", "sp"}
PayloadBytes == {"b00", "bFF"}

RECURSIVE SeqsUpTo(_, _)
SeqsUpTo(S, n) ==
    IF n = 0 THEN {<<>>}
    ELSE LET shorter == SeqsUpTo(S, n - 1)
         IN  shorter \cup {Append(q, c) : q \in {t \in shorter : Len(t) = n - 1}, c \in S}

\* the header maps frames are built from: any of the keys, each with a value
HeaderMaps ==
    UNION {[D -> SeqsUpTo(ValueChars, MaxValLen)] : D \in SUBSET HeaderKeys}

RECURSIVE HeaderBlock(_, _)
\* the lines Key:Value of the keys from position i on, separated by CRLF
HeaderBlock(headers, i) ==
    IF i > Len(KeyOrder) THEN <<>>
    ELSE LET key == KeyOrder[i]
             rest == HeaderBlock(headers, i + 1)
         IN  IF key \notin DOMAIN headers THEN rest
             ELSE key \o <<":">> \o headers[key]
                      \o (IF rest = <<>> THEN <<>> ELSE <<"CR", "LF">> \o rest)

\* the binary frame of a header map and a payload: two bytes of header
\* length (big-endian), the header block, the payload
EncodeBinary(headers, payload) ==
    LET block == HeaderBlock(headers, 1)
    IN  <<Len(block) \div 256, Len(block) % 256>> \o block \o payload

InitBinary ==
    /\ StreamIdle
    /\ SplitIdle
    /\ DecodeIdle
    /\ OffscreenIdle
    /\ binHeaders \in HeaderMaps
    /\ binPayload \in SeqsUpTo(PayloadBytes, MaxPayload)
    /\ binMessage = <<>>
    /\ binOut = "none"
    /\ binPc = "input"

\* the service builds the frame
BinaryEncode ==
    /\ binPc = "input"
    /\ binMessage' = EncodeBinary(binHeaders, binPayload)
    /\ binPc' = "encoded"
    /\ UNCHANGED <<binHeaders, binPayload, binOut, splitVars, streamVars, playVars, sessVars, auxVars>>

\* the client decodes it
BinaryDecode ==
    /\ binPc = "encoded"
    /\ binOut' = browserGetHeadersAndDataFromBinary(binMessage)
    /\ binPc' = "decoded"
    /\ UNCHANGED <<binHeaders, binPayload, binMessage, splitVars, streamVars, playVars, sessVars, auxVars>>

NextBinary == BinaryEncode \/ BinaryDecode

SpecBinary == InitBinary /\ [][NextBinary]_vars

(***************************************************************************)
(* BrowserCommunicate: stream(), _stream(), connectWebSocket() and the     *)
(* socket callbacks                                                        *)
(***************************************************************************)
InitStream ==
    /\ SplitIdle
    /\ BinaryIdle
    /\ PlayIdle
    /\ SessIdle
    /\ DecodeIdle
    /\ OffscreenIdle
    /\ binaryType \in {"blob", "arraybuffer"}
    /\ nSegs \in 0..MaxSegs
    /\ segIdx = 0
    /\ streamWasCalled = FALSE
    /\ offsetCompensation = 0
    /\ lastDurationOffset = 0
    /\ gen = [g \in Calls |-> "fresh"]
    /\ genErr = [g \in Calls |-> ""]
    /\ pc = "idle"
    /\ attempt = 0
    /\ waited = <<>>
    /\ wsState = [s \in Segs |-> "none"]
    /\ timerArmed = [s \in Segs |-> FALSE]
    /\ arrived = 0
    /\ readers = {}
    /\ audioWasReceived = FALSE
    /\ lastYieldN = 0
    /\ audioYielded = 0
    /\ errSeg = 0
    /\ outcomes = [s \in Segs |-> 0]
    /\ heard = [s \in Segs |-> FALSE]
    /\ expiry = [s \in Segs |-> "none"]
    /\ turnEnds = 0
    /\ rawLast = 0
    /\ rawEndSum = 0

\* the running generator ends: it returns ("done"), throws ("failed", err)
\* or is made to return by its consumer ("returned")
Finish(how, err) ==
    /\ pc' = how
    /\ gen' = [g \in Calls |-> IF gen[g] = "running" THEN how ELSE gen[g]]
    /\ genErr' = [g \in Calls |-> IF gen[g] = "running" THEN err ELSE genErr[g]]

\* the consumer loop of the _stream of segment s, were it to go on taking
\* items after it returned or threw
LiveAfterEnd(s) == s = segIdx

\* the consumer loop of the _stream of segment s is running
Live(s) == pc = "loop" /\ s = segIdx

\* what the consumer loop does with 'close', were it never to check for audio
CloseOutcomeLenient(audio) == "break"

\* what the consumer loop does with 'close'
CloseOutcome(audio) == IF ~audio THEN "throw" ELSE "break"

\* the for-await loop of play() over stream() leaves by `return` at the next
\* chunk it is given, which makes stream() and its _stream return at their
\* yield
ConsumerReturns == playPc = "streaming" /\ ~isActive

\* messageQueue.push(item) by a callback of the connection of segment s,
\* followed by resolveMessage(): the consumer loop of _stream, if it is still
\* running, takes the item in the microtasks that follow the callback (every
\* consumer of stream() in the repository is a for-await loop with a
\* synchronous body, so the generator is never left suspended at its yield
\* and the queue is empty again when the next callback runs)
Deliver(s, item) ==
    /\ errSeg' = IF errSeg = 0 /\ item.kind = "error" THEN s ELSE errSeg
    /\ IF item.kind = "none" \/ ~Live(s)
       THEN UNCHANGED <<pc, gen, genErr, audioWasReceived, lastYieldN, audioYielded, outcomes>>
       ELSE CASE item.kind = "close" ->
                   /\ IF CloseOutcome(audioWasReceived) = "throw"
                      THEN Finish("failed", "NoAudioReceived")
                      ELSE /\ pc' = "texts"
                           /\ UNCHANGED <<gen, genErr>>
                   /\ outcomes' = [outcomes EXCEPT ![s] = @ + 1]
                   /\ UNCHANGED <<audioWasReceived, lastYieldN, audioYielded>>
              [] item.kind = "error" ->
                   /\ Finish("failed", item.err)
                   /\ outcomes' = [outcomes EXCEPT ![s] = @ + 1]
                   /\ UNCHANGED <<audioWasReceived, lastYieldN, audioYielded>>
              [] OTHER ->
                   /\ audioWasReceived' = (audioWasReceived \/ item.kind = "audio")
                   /\ lastYieldN' = item.n
                   /\ audioYielded' = audioYielded + (IF item.kind = "audio" THEN 1 ELSE 0)
                   /\ IF ConsumerReturns
                      THEN Finish("returned", "")
                      ELSE UNCHANGED <<pc, gen, genErr>>
                   /\ UNCHANGED outcomes

\* first pull of a generator stream() returned, were it not to check
\* whether stream was called before
StartStreamNoCheck(g) ==
    /\ gen[g] = "fresh"
    /\ \A h \in Calls : h < g => gen[h] # "fresh"
    /\ streamWasCalled' = TRUE
    /\ gen' = [gen EXCEPT ![g] = "running"]
    /\ pc' = "texts"
    /\ UNCHANGED <<binaryType, nSegs, offsetCompensation, lastDurationOffset, genErr,
                   attempt, waited, segIdx, sockVars, loopVars, errSeg, outcomes, heard, expiry, histVars, pureVars>>

\* first pull of a generator stream() returned: the body runs up to its
\* for-of loop, or throws when stream was called before
StartStream(g) ==
    /\ gen[g] = "fresh"
    /\ \A h \in Calls : h < g => gen[h] # "fresh"
    /\ IF streamWasCalled
       THEN /\ gen' = [gen EXCEPT ![g] = "failed"]
            /\ genErr' = [genErr EXCEPT ![g] = "ProtocolMisuse"]
            /\ UNCHANGED <<streamWasCalled, pc>>
       ELSE /\ streamWasCalled' = TRUE
            /\ gen' = [gen EXCEPT ![g] = "running"]
            /\ pc' = "texts"
            /\ UNCHANGED genErr
    /\ UNCHANGED <<binaryType, nSegs, offsetCompensation, lastDurationOffset, attempt, waited,
                   segIdx, sockVars, loopVars, errSeg, outcomes, heard, expiry, histVars, pureVars>>

\* the iterator of this.texts, were it to give one chunk for a text that
\* splits into none
HasNextOrEmpty(idx, n) == idx < n \/ (n = 0 /\ idx = 0)

\* the iterator of this.texts has a chunk left, idx chunks of n taken
HasNext(idx, n) == idx < n

\* `for (const partialText of this.texts)`: the next chunk starts a _stream,
\* whose connectWebSocket creates the socket of attempt 1; no chunk left ends stream()
NextSegment ==
    /\ pc = "texts"
    /\ IF HasNext(segIdx, nSegs)
       THEN /\ segIdx' = segIdx + 1
            /\ attempt' = 1
            /\ waited' = <<>>
            /\ pc' = "connect"
            /\ UNCHANGED <<gen, genErr>>
       ELSE /\ Finish("done", "")
            /\ UNCHANGED <<segIdx, attempt, waited>>
    /\ UNCHANGED <<binaryType, nSegs, stateVars, sockVars, loopVars, errSeg, outcomes, heard, expiry, histVars,
                   pureVars>>

\* ws.onopen of the current attempt: connectWebSocket returns the socket;
\* _stream arms the no-data timer, installs its callbacks, sends the
\* configuration and the SSML request and enters its consumer loop
ConnectOpen ==
    /\ pc = "connect"
    /\ wsState' = [wsState EXCEPT ![segIdx] = "open"]
    /\ timerArmed' = [timerArmed EXCEPT ![segIdx] = TRUE]
    /\ audioWasReceived' = FALSE
    /\ lastYieldN' = 0
    /\ audioYielded' = 0
    /\ attempt' = 0
    /\ waited' = <<>>
    /\ pc' = "loop"
    /\ UNCHANGED <<binaryType, nSegs, stateVars, gen, genErr, segIdx, arrived, readers,
                   errSeg, outcomes, heard, expiry, histVars, pureVars>>

\* `attempt < maxRetries`, were the last attempt to be retried as well
RetryOnceMore(k) == k <= maxRetries

\* `if (attempt < maxRetries)`: failed attempt k is followed by a wait and
\* another attempt
RetryAgain(k) == k < maxRetries

\* the backoff delay, were the exponent the attempt number
BackoffDoubled(k) == 2 ^ k

\* `Math.pow(2, attempt - 1) * 1000` ms after failed attempt k, in seconds
BackoffDelay(k) == 2 ^ (k - 1)

\* the current attempt fails (ws.onerror or the connect timeout): back off
\* before the next attempt, or give up after maxRetries
ConnectFail ==
    /\ pc = "connect"
    /\ IF RetryAgain(attempt)
       THEN /\ pc' = "backoff"
            /\ UNCHANGED <<gen, genErr>>
       ELSE Finish("failed", "ConnectionError")
    /\ UNCHANGED <<binaryType, nSegs, stateVars, attempt, waited, segIdx, sockVars, loopVars,
                   errSeg, outcomes, heard, expiry, histVars, pureVars>>

\* the backoff delay has elapsed: next attempt, with a new socket
BackoffElapsed ==
    /\ pc = "backoff"
    /\ attempt' = attempt + 1
    /\ waited' = Append(waited, BackoffDelay(attempt))
    /\ pc' = "connect"
    /\ UNCHANGED <<binaryType, nSegs, stateVars, gen, genErr, segIdx, sockVars, loopVars,
                   errSeg, outcomes, heard, expiry, histVars, pureVars>>

\* what turn.end makes of offsetCompensation, were it to store the part of
\* lastDurationOffset that lies beyond the compensation in effect
TurnEndUncompensated(comp, lastDur) == lastDur - comp

\* what turn.end makes of offsetCompensation, were a turn.end with no
\* WordBoundary since the one before to reset it
TurnEndResets(comp, lastDur) == IF lastDur > comp THEN lastDur ELSE 0

\* what turn.end makes of offsetCompensation, were it to accumulate
TurnEndAccumulates(comp, lastDur) == comp + lastDur

\* what turn.end makes of offsetCompensation
TurnEndCompensation(comp, lastDur) == lastDur

\* state.lastDurationOffset after a WordBoundary chunk
DurationOffset(chunk) == chunk.offset + chunk.duration

\* what onmessage pushes at once for a frame, were turn.end to push 'close'
\* itself instead of leaving it to onclose
MessageItemEarlyClose(frame, n, comp, bt) ==
    CASE frame.type = "text" /\ frame.path = "audio.metadata" -> parseMetadata(frame.meta, comp, n)
      [] frame.type = "text" /\ frame.path = "turn.end" -> CloseItem
      [] frame.type = "text" /\ frame.path \in {"response", "turn.start"} -> NoItem
      [] frame.type = "text" -> ErrorItem(n, "UnknownResponse")
      [] frame.type = "binary" /\ bt = "arraybuffer" -> ArrayBufferItem(frame, n)
      [] OTHER -> NoItem

\* what onmessage pushes at once for a frame (NoItem: nothing; a Blob is
\* handed to a FileReader instead)
MessageItem(frame, n, comp, bt) ==
    CASE frame.type = "text" /\ frame.path = "audio.metadata" -> parseMetadata(frame.meta, comp, n)
      [] frame.type = "text" /\ frame.path = "turn.end" -> NoItem
      [] frame.type = "text" /\ frame.path \in {"response", "turn.start"} -> NoItem
      [] frame.type = "text" -> ErrorItem(n, "UnknownResponse")
      [] frame.type = "binary" /\ bt = "arraybuffer" -> ArrayBufferItem(frame, n)
      [] OTHER -> NoItem

\* the no-data timer after a message, were onmessage to leave it alone
TimerKept(armed) == armed

\* the no-data timer after a message: onmessage clears it
TimerAfterMessage(armed) == FALSE

\* what the expired no-data timer pushes, were it to close the socket only
TimeoutSilent == NoItem

\* what the expired no-data timer pushes on messageQueue
TimeoutItem == ErrorItem(0, "Timeout")

\* websocket.onmessage of the connection of segment s
OnMessage(s, frame) ==
    /\ wsState[s] = "open"
    /\ arrived < MaxFrames
    /\ LET n == arrived + 1
           isMeta == frame.type = "text" /\ frame.path = "audio.metadata"
           isTurnEnd == frame.type = "text" /\ frame.path = "turn.end"
           pushed == MessageItem(frame, n, offsetCompensation, binaryType)
           isBoundary == isMeta /\ pushed.kind = "WordBoundary"
       IN  /\ arrived' = n
           /\ timerArmed' = [timerArmed EXCEPT ![s] = TimerAfterMessage(timerArmed[s])]
           /\ heard' = [heard EXCEPT ![s] = TRUE]
           /\ UNCHANGED expiry
           /\ Deliver(s, pushed)
           /\ lastDurationOffset' =
                  IF isBoundary THEN DurationOffset(pushed) ELSE lastDurationOffset
           /\ offsetCompensation' =
                  IF isTurnEnd THEN TurnEndCompensation(offsetCompensation, lastDurationOffset)
                  ELSE offsetCompensation
           /\ wsState' = IF isTurnEnd THEN [wsState EXCEPT ![s] = "closing"] ELSE wsState
           /\ readers' = IF frame.type = "binary" /\ binaryType = "blob"
                         THEN readers \cup {[seg |-> s, item |-> BinaryItem(frame, n)]}
                         ELSE readers
           /\ turnEnds' = IF isTurnEnd THEN turnEnds + 1 ELSE turnEnds
           /\ rawLast' = CASE isBoundary -> pushed.offset - offsetCompensation + pushed.duration
                           [] isTurnEnd -> 0
                           [] OTHER -> rawLast
           /\ rawEndSum' = IF isTurnEnd THEN rawEndSum + rawLast ELSE rawEndSum
    /\ UNCHANGED <<binaryType, nSegs, streamWasCalled, attempt, waited, segIdx, pureVars>>

\* reader.onload of a FileReader started by the Blob branch of onmessage
ReaderOnLoad(r) ==
    /\ r \in readers
    /\ readers' = readers \ {r}
    /\ Deliver(r.seg, r.item)
    /\ UNCHANGED <<binaryType, nSegs, stateVars, attempt, waited, segIdx, wsState, timerArmed,
                   heard, expiry,
                   arrived, histVars, pureVars>>

\* websocket.onerror of the connection of segment s; its close event follows
OnSocketError(s) ==
    /\ wsState[s] = "open"
    /\ timerArmed' = [timerArmed EXCEPT ![s] = FALSE]
    /\ heard' = [heard EXCEPT ![s] = TRUE]
    /\ UNCHANGED expiry
    /\ Deliver(s, ErrorItem(0, "WebSocketError"))
    /\ wsState' = [wsState EXCEPT ![s] = "closing"]
    /\ UNCHANGED <<binaryType, nSegs, stateVars, attempt, waited, segIdx, arrived, readers,
                   histVars, pureVars>>

\* websocket.onclose of the connection of segment s: closed by the service,
\* or the close that websocket.close() or an error started completes
OnClose(s) ==
    /\ wsState[s] \in {"open", "closing"}
    /\ timerArmed' = [timerArmed EXCEPT ![s] = FALSE]
    /\ heard' = [heard EXCEPT ![s] = TRUE]
    /\ UNCHANGED expiry
    /\ Deliver(s, CloseItem)
    /\ wsState' = [wsState EXCEPT ![s] = "closed"]
    /\ UNCHANGED <<binaryType, nSegs, stateVars, attempt, waited, segIdx, arrived, readers,
                   histVars, pureVars>>

\* the no-data timer of the connection of segment s expires
NoDataTimeout(s) ==
    /\ timerArmed[s]
    /\ timerArmed' = [timerArmed EXCEPT ![s] = FALSE]
    /\ expiry' = [expiry EXCEPT ![s] = IF heard[s] THEN "heard" ELSE "silent"]
    /\ UNCHANGED heard
    /\ wsState' = [wsState EXCEPT ![s] = IF wsState[s] = "open" THEN "closing" ELSE wsState[s]]
    /\ Deliver(s, TimeoutItem)
    /\ UNCHANGED <<binaryType, nSegs, stateVars, attempt, waited, segIdx, arrived, readers,
                   histVars, pureVars>>

Next ==
    \/ \E g \in Calls : StartStream(g) /\ UNCHANGED playVars
    \/ NextSegment /\ UNCHANGED playVars
    \/ ConnectOpen /\ UNCHANGED playVars
    \/ ConnectFail /\ UNCHANGED playVars
    \/ BackoffElapsed /\ UNCHANGED playVars
    \/ \E s \in Segs, frame \in Frames : OnMessage(s, frame) /\ UNCHANGED playVars
    \/ \E r \in readers : ReaderOnLoad(r) /\ UNCHANGED playVars
    \/ \E s \in Segs : OnSocketError(s) /\ UNCHANGED playVars
    \/ \E s \in Segs : OnClose(s) /\ UNCHANGED playVars
    \/ \E s \in Segs : NoDataTimeout(s) /\ UNCHANGED playVars

Spec == InitStream /\ [][Next]_vars

(***************************************************************************)
(* websocket.onmessage on one frame: what it pushes on messageQueue, at    *)
(* once for a text frame or an ArrayBuffer, in reader.onload for a Blob.   *)
(* A binary frame is given by its bytes, built from a Path, a Content-Type *)
(* (either may be absent) and a payload, of which a prefix arrived.        *)
(***************************************************************************)
\* the entries a Metadata array is made of: word boundaries, SessionEnd and
\* an entry of another type
Entries ==
    {Entry("WordBoundary", o, d) : o \in 0..MaxOffset, d \in 0..MaxDuration}
    \cup {Entry("SessionEnd", 0, 0), Entry("SentenceBoundary", 0, 0)}

\* the text frames: audio.metadata with any Metadata array, and the other
\* paths
DecodeTextFrames ==
    {TextFrame("audio.metadata", meta) : meta \in SeqsUpTo(Entries, MaxEntries)}
    \cup {TextFrame(path, <<>>) : path \in {"turn.end", "response", "turn.start", "other"}}

ContentTypes == {"", "audio/mpeg", "audio/webm", "audio/webm; codec=opus", "audio/ogg"}

\* the bytes of the binary frame the service builds: two bytes of header
\* length, the header lines Path and Content-Type that are present, the
\* payload
FrameBytes(path, ctype, payload) ==
    LET pathLine == IF path = "" THEN <<>> ELSE <<"Path", ":", path>>
        typeLine == IF ctype = "" THEN <<>> ELSE <<"Content-Type", ":", ctype>>
        block == IF pathLine # <<>> /\ typeLine # <<>>
                 THEN pathLine \o <<"CR", "LF">> \o typeLine
                 ELSE pathLine \o typeLine
    IN  <<Len(block) \div 256, Len(block) % 256>> \o block \o payload

\* what the service put in a binary frame, and how many of its bytes arrived
DecodeBinaryFrames ==
    {[type |-> "binary", path |-> path, ctype |-> ctype, payload |-> payload, keep |-> keep] :
        path \in {"audio", "other", ""}, ctype \in ContentTypes,
        payload \in SeqsUpTo(PayloadBytes, MaxPayload),
        keep \in 0..(10 + MaxPayload)}

\* all bytes of the frame arrived
Intact(in) == in.keep >= Len(FrameBytes(in.path, in.ctype, in.payload))

\* BrowserBuffer.from(data) for an ArrayBuffer: a Uint8Array over the same
\* bytes
BrowserBufferFrom(input) == input

\* the byte-by-byte copy of reader.result into a new Uint8Array
CopyBytes(arrayBuffer) == [i \in 1..Len(arrayBuffer) |-> arrayBuffer[i]]

InitDecode ==
    /\ StreamIdle
    /\ PlayIdle
    /\ SessIdle
    /\ SplitIdle
    /\ BinaryIdle
    /\ OffscreenIdle
    /\ \/ /\ decIn \in DecodeTextFrames
          /\ decBytes = <<>>
          /\ decBt = "string"
          /\ decComp \in 0..(MaxOffset + MaxDuration)
       \/ /\ decIn \in DecodeBinaryFrames
          /\ decBytes = SliceTo(FrameBytes(decIn.path, decIn.ctype, decIn.payload), decIn.keep)
          /\ decBt \in {"arraybuffer", "blob"}
          /\ decComp = 0
    /\ decItem = NoItem
    /\ decPc = "received"

\* websocket.onmessage: a string or an ArrayBuffer is decoded and its item
\* pushed at once; a Blob is handed to a FileReader
DecodeOnMessage ==
    /\ decPc = "received"
    /\ CASE decBt = "string" ->
              /\ decItem' = MessageItem(decIn, 1, decComp, "blob")
              /\ decPc' = "pushed"
         [] decBt = "arraybuffer" ->
              /\ decItem' = MessageItem(FrameOf(BrowserBufferFrom(decBytes)), 1, decComp,
                                        "arraybuffer")
              /\ decPc' = "pushed"
         [] OTHER ->
              /\ decItem' = decItem
              /\ decPc' = "reading"
    /\ UNCHANGED <<decIn, decBytes, decBt, decComp, splitVars, binVars, sessVars,
                   offscreenVars, streamVars, playVars>>

\* reader.onload of the FileReader of a Blob frame
DecodeReaderOnLoad ==
    /\ decPc = "reading"
    /\ decItem' = BinaryItem(FrameOf(CopyBytes(decBytes)), 1)
    /\ decPc' = "pushed"
    /\ UNCHANGED <<decIn, decBytes, decBt, decComp, splitVars, binVars, sessVars,
                   offscreenVars, streamVars, playVars>>

NextDecode == DecodeOnMessage \/ DecodeReaderOnLoad

SpecDecode == InitDecode /\ [][NextDecode]_vars

(***************************************************************************)
(* TTSPlayer: play() with its media source, stream loop, appendNextChunk   *)
(* and checkAndEndStream, togglePause(), stop() and cleanup()              *)
(* (src/utils/ttsPlayer.ts), with the offscreen document                   *)
(* (src/offscreen/index.ts) as its caller.  One call of play() is          *)
(* followed, up to and after a stop().  The player is the consumer of      *)
(* stream(): what its loop does with a chunk, with the end of the stream   *)
(* or with the error stream() throws happens in the step of the callback   *)
(* that caused it.  The ended and error events of the audio element are    *)
(* left out; togglePause() is a step of SpecPlayToggle only.               *)
(***************************************************************************)

\* what sourceBuffer.appendBuffer may do: return (TRUE) or throw (FALSE)
AppendBufferResults == IF appendErrors < MaxAppendErrors THEN {TRUE, FALSE} ELSE {TRUE}

\* appendNextChunk calls audioElement.play() after an append, were it to do
\* so after every append
StartsPlaybackAlways(first) == TRUE

\* appendNextChunk calls audioElement.play() after an append: `if (isFirstChunk)`
StartsPlayback(first) == first

\* audioElement.play(): a paused element is no longer paused and its play
\* event is queued
AudioPlay ==
    /\ audioPaused' = FALSE
    /\ audioEvents' = IF audioPaused THEN Append(audioEvents, "play") ELSE audioEvents

\* appendNextChunk(), were it to append whether or not the buffer is updating
AppendNextChunkBusy(n, updating, timers, ok) ==
    IF isActive /\ msState = "open" /\ n > 0
    THEN /\ chunks' = n - 1
         /\ sbUpdating' = TRUE
         /\ appended' = appended + 1
         /\ IF StartsPlayback(isFirstChunk)
            THEN AudioPlay /\ playCalls' = playCalls + 1
            ELSE UNCHANGED <<audioPaused, audioEvents, playCalls>>
         /\ isFirstChunk' = FALSE
         /\ retryTimers' = timers
         /\ UNCHANGED appendErrors
    ELSE /\ chunks' = n
         /\ sbUpdating' = updating
         /\ retryTimers' = timers
         /\ UNCHANGED <<appended, audioPaused, audioEvents, playCalls, isFirstChunk,
                        appendErrors>>

\* appendNextChunk(), with n chunks in `chunks`, `timers` retry timers
\* pending and appendBuffer returning (ok) or throwing
AppendNextChunk(n, updating, timers, ok) ==
    IF isActive /\ msState = "open" /\ n > 0 /\ ~updating
    THEN IF ok
         THEN /\ chunks' = n - 1
              /\ sbUpdating' = TRUE
              /\ appended' = appended + 1
              /\ IF StartsPlayback(isFirstChunk)
                 THEN AudioPlay /\ playCalls' = playCalls + 1
                 ELSE UNCHANGED <<audioPaused, audioEvents, playCalls>>
              /\ isFirstChunk' = FALSE
              /\ retryTimers' = timers
              /\ UNCHANGED appendErrors
         ELSE /\ chunks' = IF n >= 2 THEN n - 2 ELSE 0
              /\ sbUpdating' = updating
              /\ retryTimers' = timers + 1
              /\ appendErrors' = appendErrors + 1
              /\ UNCHANGED <<appended, audioPaused, audioEvents, playCalls, isFirstChunk>>
    ELSE /\ chunks' = n
         /\ sbUpdating' = updating
         /\ retryTimers' = timers
         /\ UNCHANGED <<appended, audioPaused, audioEvents, playCalls, isFirstChunk,
                        appendErrors>>

\* the end condition of checkAndEndStream, were it to look at the queue only
DrainedQueue(n, updating) == n = 0

\* the end condition of checkAndEndStream, streamEnded being true
Drained(n, updating) == n = 0 /\ ~updating

\* checkAndEndStream(), streamEnded being true
CheckAndEndStream ==
    IF ~isActive
    THEN /\ checkTimer' = FALSE
         /\ playPc' = "returned"
         /\ UNCHANGED <<msState, promise>>
    ELSE IF Drained(chunks, sbUpdating)
         THEN /\ msState' = IF msState = "open" THEN "ended" ELSE msState
              /\ promise' = "resolved"
              /\ playPc' = "settled"
              /\ checkTimer' = FALSE
         ELSE /\ checkTimer' = TRUE
              /\ playPc' = "draining"
              /\ UNCHANGED <<msState, promise>>

\* the onError callback of the offscreen document: an 'error' playback
\* state is sent
OnErrorCallback(sent) == sent + 1

\* the catch of the offscreen document on the promise of play(): an 'error'
\* playback state is sent
PlayRejected(sent) == sent + 1

\* play(): no session to deactivate, onLoading, a new BrowserCommunicate, a
\* MediaSource attached to a new audio element, and the promise returned
Play ==
    /\ playPc = "idle"
    /\ playPc' = "attached"
    /\ uiState' = "LOADING"
    /\ isActive' = TRUE
    /\ audioElement' = "set"
    /\ promise' = "pending"
    /\ UNCHANGED <<msState, sinkVars, updateEnds, checkTimer, received, countVars>>
    /\ UNCHANGED <<streamVars, pureVars>>

\* the 'sourceopen' listener: addSourceBuffer, then the stream loop starts
\* and pulls communicate.stream() for the first time
SourceOpen ==
    /\ playPc = "attached"
    /\ playPc' = "streaming"
    /\ msState' = "open"
    /\ StartStream(1)
    /\ UNCHANGED <<uiState, isActive, audioElement, promise, sinkVars, updateEnds,
                   checkTimer, received, countVars>>

\* the stream loop of play() in a step of the stream: at a chunk, a
\* deactivated session returns; an audio chunk is pushed and appendNextChunk
\* called; the end of stream() starts checkAndEndStream; an error of
\* stream() is reported through onError and rejects the promise
Consumer ==
    CASE pc' = "returned" /\ pc # "returned" ->
           /\ playPc' = "returned"
           /\ UNCHANGED <<uiState, promise, msState, sinkVars, checkTimer, enqueued,
                          errorStates>>
      [] pc' # "returned" /\ audioYielded' = audioYielded + 1 ->
           /\ enqueued' = enqueued + 1
           /\ \E ok \in AppendBufferResults :
                 AppendNextChunk(chunks + 1, sbUpdating, retryTimers, ok)
           /\ UNCHANGED <<playPc, uiState, promise, msState, checkTimer, errorStates>>
      [] pc' = "done" /\ pc # "done" ->
           /\ CheckAndEndStream
           /\ UNCHANGED <<uiState, sinkVars, enqueued, errorStates>>
      [] pc' = "failed" /\ pc # "failed" ->
           /\ uiState' = "ERROR"
           /\ promise' = "rejected"
           /\ errorStates' = PlayRejected(OnErrorCallback(errorStates))
           /\ playPc' = "settled"
           /\ UNCHANGED <<msState, sinkVars, checkTimer, enqueued>>
      [] OTHER ->
           UNCHANGED <<playPc, uiState, promise, msState, sinkVars, checkTimer, enqueued,
                       errorStates>>

\* a step of the stream with the stream loop of play() consuming it
Streamed == Consumer /\ UNCHANGED <<isActive, audioElement, updateEnds, toggles>>

\* the sink has taken the chunk appended last: updating becomes false and
\* an 'updateend' event is queued
AppendDone ==
    /\ sbUpdating
    /\ sbUpdating' = FALSE
    /\ updateEnds' = updateEnds + 1
    /\ UNCHANGED <<playPc, uiState, isActive, audioElement, promise, msState, chunks,
                   appended, isFirstChunk, audioEvents, audioPaused, playCalls,
                   retryTimers, appendErrors, checkTimer, received, countVars>>
    /\ UNCHANGED <<streamVars, pureVars>>

\* sourceBuffer's 'updateend' listener: appendNextChunk runs
UpdateEnd ==
    /\ updateEnds > 0
    /\ updateEnds' = updateEnds - 1
    /\ \E ok \in AppendBufferResults : AppendNextChunk(chunks, sbUpdating, retryTimers, ok)
    /\ UNCHANGED <<playPc, uiState, isActive, audioElement, promise, msState, checkTimer,
                   received, countVars>>
    /\ UNCHANGED <<streamVars, pureVars>>

\* a 100 ms timer set by the catch of appendNextChunk fires: appendNextChunk
\* runs
RetryTimer ==
    /\ retryTimers > 0
    /\ \E ok \in AppendBufferResults :
          AppendNextChunk(chunks, sbUpdating, retryTimers - 1, ok)
    /\ UNCHANGED <<playPc, uiState, isActive, audioElement, promise, msState, updateEnds,
                   checkTimer, received, countVars>>
    /\ UNCHANGED <<streamVars, pureVars>>

\* the 100 ms timer of checkAndEndStream fires
CheckTimer ==
    /\ checkTimer
    /\ CheckAndEndStream
    /\ UNCHANGED <<uiState, isActive, audioElement, sinkVars, updateEnds, received,
                   countVars>>
    /\ UNCHANGED <<streamVars, pureVars>>

\* the play event of the audio element reaches audioElement.onplay
AudioOnPlay ==
    /\ audioEvents # <<>> /\ Head(audioEvents) = "play"
    /\ audioEvents' = Tail(audioEvents)
    /\ uiState' = "PLAYING"
    /\ UNCHANGED <<playPc, isActive, audioElement, promise, msState, chunks, sbUpdating,
                   appended, isFirstChunk, audioPaused, playCalls, retryTimers,
                   appendErrors, updateEnds, checkTimer, received, countVars>>
    /\ UNCHANGED <<streamVars, pureVars>>

\* the pause event of the audio element reaches audioElement.onpause
AudioOnPause ==
    /\ audioEvents # <<>> /\ Head(audioEvents) = "pause"
    /\ audioEvents' = Tail(audioEvents)
    /\ uiState' = "PAUSED"
    /\ UNCHANGED <<playPc, isActive, audioElement, promise, msState, chunks, sbUpdating,
                   appended, isFirstChunk, audioPaused, playCalls, retryTimers,
                   appendErrors, updateEnds, checkTimer, received, countVars>>
    /\ UNCHANGED <<streamVars, pureVars>>

\* togglePause() with an audio element: play() if it is paused, else pause()
TogglePause ==
    /\ audioElement = "set"
    /\ toggles < MaxToggles
    /\ toggles' = toggles + 1
    /\ IF audioPaused
       THEN AudioPlay
       ELSE /\ audioPaused' = TRUE
            /\ audioEvents' = Append(audioEvents, "pause")
    /\ UNCHANGED <<playPc, uiState, isActive, audioElement, promise, msState, chunks,
                   sbUpdating, appended, isFirstChunk, playCalls, retryTimers,
                   appendErrors, updateEnds, checkTimer, received, enqueued, errorStates>>
    /\ UNCHANGED <<streamVars, pureVars>>

\* cleanup() with a session current: currentTTSDeactivate() makes it
\* inactive; the handlers of the audio element are removed, so that its
\* queued events reach none, it is paused, its src is cleared, which
\* detaches the media source, and this.audioElement is dropped.  A media
\* source that was not open yet never opens.
CleanupSession ==
    /\ isActive' = FALSE
    /\ audioElement' = "null"
    /\ msState' = "closed"
    /\ audioEvents' = <<>>
    /\ audioPaused' = TRUE
    /\ playPc' = IF playPc = "attached" THEN "detached" ELSE playPc
    /\ UNCHANGED <<promise, chunks, sbUpdating, appended, isFirstChunk, playCalls,
                   retryTimers, appendErrors, updateEnds, checkTimer, received, countVars>>
    /\ UNCHANGED <<streamVars, pureVars>>

\* stop() on the current session: the audio element is paused and rewound,
\* cleanup(), then onStopped
Stop ==
    /\ isActive
    /\ CleanupSession
    /\ uiState' = "STOPPED"

\* the frames the service sends to the player: audio, a word boundary and
\* turn.end
PlayFrames ==
    {AudioFrame,
     TextFrame("audio.metadata", <<Entry("WordBoundary", 0, 0)>>),
     TurnEndFrame}

\* `received` after one more frame
Received(before, frame) ==
    CASE before = "none" /\ frame = AudioFrame -> "audio"
      [] before = "audio" /\ frame = TurnEndFrame -> "audio,turn.end"
      [] OTHER -> "other"

NextPlay ==
    \/ Play
    \/ SourceOpen
    \/ AppendDone
    \/ UpdateEnd
    \/ RetryTimer
    \/ CheckTimer
    \/ AudioOnPlay
    \/ Stop
    \/ NextSegment /\ Streamed /\ UNCHANGED received
    \/ ConnectOpen /\ Streamed /\ UNCHANGED received
    \/ ConnectFail /\ Streamed /\ UNCHANGED received
    \/ BackoffElapsed /\ Streamed /\ UNCHANGED received
    \/ \E s \in Segs, frame \in PlayFrames :
          OnMessage(s, frame) /\ Streamed /\ received' = Received(received, frame)
    \/ \E r \in readers : ReaderOnLoad(r) /\ Streamed /\ UNCHANGED received
    \/ \E s \in Segs : OnSocketError(s) /\ Streamed /\ UNCHANGED received
    \/ \E s \in Segs : OnClose(s) /\ Streamed /\ UNCHANGED received
    \/ \E s \in Segs : NoDataTimeout(s) /\ Streamed /\ UNCHANGED received

\* the player runs in a host whose sockets deliver Blobs: no code of the
\* repository sets binaryType
InitPlay == InitStream /\ binaryType = "blob"

SpecPlay == InitPlay /\ [][NextPlay]_vars

\* the same with the caller using togglePause()
NextPlayToggle ==
    \/ NextPlay
    \/ TogglePause
    \/ AudioOnPause

SpecPlayToggle == InitPlay /\ [][NextPlayToggle]_vars

\* what the host is bound to run sooner or later: the steps of the
\* generator, the end of a connection attempt (it opens, fails or times
\* out), the timers, the load of a FileReader, the close event of a socket
\* the code closed, the completion of an append and the queued events.
\* Nothing makes the service send a frame or close the socket.
FairPlay ==
    /\ WF_vars(NextSegment /\ Streamed /\ UNCHANGED received)
    /\ WF_vars((ConnectOpen \/ ConnectFail) /\ Streamed /\ UNCHANGED received)
    /\ WF_vars(BackoffElapsed /\ Streamed /\ UNCHANGED received)
    /\ WF_vars(\E r \in readers : ReaderOnLoad(r) /\ Streamed /\ UNCHANGED received)
    /\ \A s \in Segs : WF_vars(NoDataTimeout(s) /\ Streamed /\ UNCHANGED received)
    /\ \A s \in Segs :
          WF_vars(wsState[s] = "closing" /\ OnClose(s) /\ Streamed /\ UNCHANGED received)
    /\ WF_vars(SourceOpen)
    /\ WF_vars(AppendDone)
    /\ WF_vars(UpdateEnd)
    /\ WF_vars(RetryTimer)
    /\ WF_vars(CheckTimer)
    /\ WF_vars(AudioOnPlay)

SpecPlayFair == SpecPlay /\ FairPlay

\* an 'updateend' event of the source buffer does not reach the listener
\* registered in the sourceopen handler: appendNextChunk is not run for it
UpdateEndMissed ==
    /\ updateEnds > 0
    /\ updateEnds' = updateEnds - 1
    /\ UNCHANGED <<playPc, uiState, isActive, audioElement, promise, msState, sinkVars,
                   checkTimer, received, countVars>>
    /\ UNCHANGED <<streamVars, pureVars>>

\* the player with a sink whose 'updateend' notifications can be missed
NextPlayLossy ==
    \/ NextPlay
    \/ UpdateEndMissed

SpecPlayLossy == InitPlay /\ [][NextPlayLossy]_vars /\ FairPlay

(***************************************************************************)
(* TTSPlayer across calls of play(): each call is a session, the closure   *)
(* of play() with its isActive, mediaSource, sourceBuffer and chunks; the  *)
(* player keeps currentTTSDeactivate and audioElement.  initTTS            *)
(* (src/contentScript.ts) calls cleanup(), awaits the settings and the     *)
(* control panel, and then calls play().  The stream of a session is the   *)
(* source of its audio chunks and nothing more here; its end and its       *)
(* errors are followed in SpecPlay.                                        *)
(***************************************************************************)
Sessions == 1..MaxPlays

\* what play() makes of the isActive flags of the earlier sessions, were it
\* to leave them alone
PriorKept(active) == active

\* what play() makes of the isActive flags of the earlier sessions:
\* currentTTSDeactivate(), and again in cleanup()
PriorDeactivated(active) ==
    [p \in Sessions |-> IF p = currentTTSDeactivate THEN FALSE ELSE active[p]]

\* cleanup(): the current session is deactivated, the audio element is
\* cleared, which detaches the media source it carried, and dropped
CleanupPlayer(active) ==
    /\ sActive' = PriorDeactivated(active)
    /\ sMedia' = [p \in Sessions |-> IF p = audioElementOf THEN "closed" ELSE sMedia[p]]

\* appendNextChunk() of session p, with n chunks in its `chunks`
SessAppendNextChunk(p, n, updating) ==
    IF sActive[p] /\ sMedia[p] = "open" /\ n > 0 /\ ~updating
    THEN /\ sChunks' = [sChunks EXCEPT ![p] = n - 1]
         /\ sUpdating' = [sUpdating EXCEPT ![p] = TRUE]
         /\ sAppended' = [sAppended EXCEPT ![p] = @ + 1]
    ELSE /\ sChunks' = [sChunks EXCEPT ![p] = n]
         /\ sUpdating' = [sUpdating EXCEPT ![p] = updating]
         /\ UNCHANGED sAppended

InitSessions ==
    /\ StreamIdle
    /\ SplitIdle
    /\ BinaryIdle
    /\ DecodeIdle
    /\ OffscreenIdle

\* initTTS up to its first await: player.cleanup()
InitTTS ==
    /\ nPlays + pendingInits < MaxPlays
    /\ pendingInits' = pendingInits + 1
    /\ CleanupPlayer(sActive)
    /\ currentTTSDeactivate' = 0
    /\ audioElementOf' = 0
    /\ UNCHANGED <<nPlays, sPc, sChunks, sUpdating, sUpdateEnds, sAppended, sYielded>>
    /\ UNCHANGED <<splitVars, binVars, streamVars, playVars, auxVars>>

\* initTTS after its awaits: player.play(), which deactivates the current
\* session, calls cleanup() and starts session p with a new media source on
\* a new audio element
PlaySession ==
    /\ pendingInits > 0
    /\ pendingInits' = pendingInits - 1
    /\ LET p == nPlays + 1
       IN  /\ nPlays' = p
           /\ sActive' = [PriorDeactivated(sActive) EXCEPT ![p] = TRUE]
           /\ sMedia' = [q \in Sessions |-> IF q = audioElementOf THEN "closed" ELSE sMedia[q]]
           /\ currentTTSDeactivate' = p
           /\ audioElementOf' = p
           /\ sPc' = [sPc EXCEPT ![p] = "attached"]
    /\ UNCHANGED <<sChunks, sUpdating, sUpdateEnds, sAppended, sYielded>>
    /\ UNCHANGED <<splitVars, binVars, streamVars, playVars, auxVars>>

\* stop(): cleanup(), then onStopped
StopPlayer ==
    /\ nPlays > 0
    /\ CleanupPlayer(sActive)
    /\ currentTTSDeactivate' = 0
    /\ audioElementOf' = 0
    /\ UNCHANGED <<nPlays, pendingInits, sPc, sChunks, sUpdating, sUpdateEnds, sAppended,
                   sYielded>>
    /\ UNCHANGED <<splitVars, binVars, streamVars, playVars, auxVars>>

\* the 'sourceopen' listener of session p, whose media source is the one
\* the audio element carries: addSourceBuffer, and the stream loop starts
SessSourceOpen(p) ==
    /\ sPc[p] = "attached"
    /\ audioElementOf = p
    /\ sPc' = [sPc EXCEPT ![p] = "streaming"]
    /\ sMedia' = [sMedia EXCEPT ![p] = "open"]
    /\ UNCHANGED <<nPlays, pendingInits, sActive, currentTTSDeactivate, audioElementOf,
                   sChunks, sUpdating, sUpdateEnds, sAppended, sYielded>>
    /\ UNCHANGED <<splitVars, binVars, streamVars, playVars, auxVars>>

\* the stream of session p yields an audio chunk to its stream loop, which
\* returns if the session is inactive and otherwise pushes the chunk and
\* calls appendNextChunk
SessChunk(p) ==
    /\ sPc[p] = "streaming"
    /\ sYielded < MaxFrames
    /\ sYielded' = sYielded + 1
    /\ IF ~sActive[p]
       THEN /\ sPc' = [sPc EXCEPT ![p] = "returned"]
            /\ UNCHANGED <<sChunks, sUpdating, sAppended>>
       ELSE /\ SessAppendNextChunk(p, sChunks[p] + 1, sUpdating[p])
            /\ UNCHANGED sPc
    /\ UNCHANGED <<nPlays, pendingInits, sActive, sMedia, currentTTSDeactivate,
                   audioElementOf, sUpdateEnds>>
    /\ UNCHANGED <<splitVars, binVars, streamVars, playVars, auxVars>>

\* the sink of session p has taken the chunk appended last
SessAppendDone(p) ==
    /\ sUpdating[p]
    /\ sUpdating' = [sUpdating EXCEPT ![p] = FALSE]
    /\ sUpdateEnds' = [sUpdateEnds EXCEPT ![p] = @ + 1]
    /\ UNCHANGED <<nPlays, pendingInits, sActive, sMedia, currentTTSDeactivate,
                   audioElementOf, sPc, sChunks, sAppended, sYielded>>
    /\ UNCHANGED <<splitVars, binVars, streamVars, playVars, auxVars>>

\* the 'updateend' listener of the source buffer of session p
SessUpdateEnd(p) ==
    /\ sUpdateEnds[p] > 0
    /\ sUpdateEnds' = [sUpdateEnds EXCEPT ![p] = @ - 1]
    /\ SessAppendNextChunk(p, sChunks[p], sUpdating[p])
    /\ UNCHANGED <<nPlays, pendingInits, sActive, sMedia, currentTTSDeactivate,
                   audioElementOf, sPc, sYielded>>
    /\ UNCHANGED <<splitVars, binVars, streamVars, playVars, auxVars>>

NextSessions ==
    \/ InitTTS
    \/ PlaySession
    \/ StopPlayer
    \/ \E p \in Sessions : SessSourceOpen(p)
    \/ \E p \in Sessions : SessChunk(p)
    \/ \E p \in Sessions : SessAppendDone(p)
    \/ \E p \in Sessions : SessUpdateEnd(p)

SpecSessions == InitSessions /\ [][NextSessions]_vars

(***************************************************************************)
(* The background script: setupOffscreenDocument, called for every message *)
(* that needs the audio player, any number of calls running at a time.     *)
(* A call awaits the existence check, then awaits the creation in flight   *)
(* or starts one.  The host answers the check and creates the document on  *)
(* its side; the continuations of the awaits run later, in any order.      *)
(* creatingOffscreenDocument is 0 for null, else the call whose promise it *)
(* holds.                                                                  *)
(***************************************************************************)
Setups == 1..MaxSetups

\* what hasOffscreenDocument resolves to: contexts.length > 0, or false
\* from its catch when runtime.getContexts cannot be called
HasOffscreenDocument(getContexts, contexts) == IF getContexts THEN contexts > 0 ELSE FALSE

InitOffscreen ==
    /\ StreamIdle
    /\ PlayIdle
    /\ SessIdle
    /\ SplitIdle
    /\ BinaryIdle
    /\ DecodeIdle
    /\ hasGetContexts \in BOOLEAN
    /\ docExists = FALSE
    /\ creatingOffscreenDocument = 0
    /\ oPc = [c \in Setups |-> "idle"]
    /\ oAnswer = [c \in Setups |-> FALSE]
    /\ oAwaits = [c \in Setups |-> 0]
    /\ oCreates = 0

\* setupOffscreenDocument() is called: it calls hasOffscreenDocument(),
\* which asks the host for the contexts of the offscreen document
SetupCall(c) ==
    /\ oPc[c] = "idle"
    /\ oPc' = [oPc EXCEPT ![c] = "checking"]
    /\ UNCHANGED <<hasGetContexts, docExists, creatingOffscreenDocument, oAnswer, oAwaits,
                   oCreates, decodeVars, splitVars, binVars, sessVars, streamVars, playVars>>

\* the host settles the promise of getContexts with the contexts that
\* exist at that moment
ContextsAnswered(c) ==
    /\ oPc[c] = "checking"
    /\ oAnswer' = [oAnswer EXCEPT
           ![c] = HasOffscreenDocument(hasGetContexts, IF docExists THEN 1 ELSE 0)]
    /\ oPc' = [oPc EXCEPT ![c] = "answered"]
    /\ UNCHANGED <<hasGetContexts, docExists, creatingOffscreenDocument, oAwaits,
                   oCreates, decodeVars, splitVars, binVars, sessVars, streamVars, playVars>>

\* setupOffscreenDocument resumes after `await hasOffscreenDocument()`
SetupResume(c) ==
    /\ oPc[c] = "answered"
    /\ IF oAnswer[c]
       THEN /\ oPc' = [oPc EXCEPT ![c] = "done"]
            /\ UNCHANGED <<creatingOffscreenDocument, oAwaits, oCreates>>
       ELSE IF creatingOffscreenDocument # 0
       THEN /\ oPc' = [oPc EXCEPT ![c] = "waiting"]
            /\ oAwaits' = [oAwaits EXCEPT ![c] = creatingOffscreenDocument]
            /\ UNCHANGED <<creatingOffscreenDocument, oCreates>>
       ELSE /\ creatingOffscreenDocument' = c
            /\ oCreates' = oCreates + 1
            /\ oPc' = [oPc EXCEPT ![c] = "creating"]
            /\ UNCHANGED oAwaits
    /\ UNCHANGED <<hasGetContexts, docExists, oAnswer,
                   decodeVars, splitVars, binVars, sessVars, streamVars, playVars>>

\* the host settles the promise of createDocument: the document exists
\* from now on, or the creation failed, as it does when there is one already
CreateSettled(c, ok) ==
    /\ oPc[c] = "creating"
    /\ docExists' = (docExists \/ ok)
    /\ oPc' = [oPc EXCEPT ![c] = "settled"]
    /\ UNCHANGED <<hasGetContexts, creatingOffscreenDocument, oAnswer, oAwaits,
                   oCreates, decodeVars, splitVars, binVars, sessVars, streamVars, playVars>>

\* setupOffscreenDocument resumes after `await creatingOffscreenDocument`:
\* the call that created runs its finally, and the calls that awaited the
\* same promise return
CreateResume(c) ==
    /\ oPc[c] = "settled"
    /\ creatingOffscreenDocument' = 0
    /\ oPc' = [d \in Setups |->
                  IF d = c \/ (oPc[d] = "waiting" /\ oAwaits[d] = c) THEN "done" ELSE oPc[d]]
    /\ UNCHANGED <<hasGetContexts, docExists, oAnswer, oAwaits,
                   oCreates, decodeVars, splitVars, binVars, sessVars, streamVars, playVars>>

NextOffscreen ==
    \/ \E c \in Setups : SetupCall(c)
    \/ \E c \in Setups : ContextsAnswered(c)
    \/ \E c \in Setups : SetupResume(c)
    \/ \E c \in Setups, ok \in BOOLEAN : CreateSettled(c, ok)
    \/ \E c \in Setups : CreateResume(c)

SpecOffscreen == InitOffscreen /\ [][NextOffscreen]_vars

(***************************************************************************)
(* Claims about the segmenter                                              *)
(***************************************************************************)

\* C9: for any text and budget B > 0, every chunk yielded by
\* browserSplitTextByByteLength has encoded length at most B.
C9_ChunksWithinBudget ==
    \A i \in 1..Len(splitOut) : Len(splitOut[i]) <= splitBudget

RECURSIVE Rebuilds(_, _)
\* the chunks cs (decoded), joined with at most one whitespace character
\* inserted at each split point, give exactly the text t
Rebuilds(cs, t) ==
    IF cs = <<>> THEN t = <<>>
    ELSE LET c == Head(cs)
             n == Len(c)
         IN  /\ n <= Len(t)
             /\ SubSeq(t, 1, n) = c
             /\ LET rest == SubSeq(t, n + 1, Len(t))
                IN  IF Len(cs) = 1 THEN rest = <<>>
                    ELSE \/ Rebuilds(Tail(cs), rest)
                         \/ /\ rest # <<>>
                            /\ IsWhite(Head(rest))
                            /\ Rebuilds(Tail(cs), Tail(rest))

\* C10: when the generator has finished, its chunks joined with at most one
\* whitespace character per split point reconstruct the trimmed input.
C10_Reconstructs ==
    splitPc = "done" =>
        Rebuilds([i \in 1..Len(splitOut) |-> TextDecode(splitOut[i])], Trim(splitText))

C36_SplitTerminates ==
    /\ [][(splitPc = "loop" /\ splitPc' = "loop") =>
              Len(splitBuffer') < Len(splitBuffer)]_vars
    /\ splitPc = "loop" ~> splitPc \in {"done", "threw"}

\* the generator has returned after at least two iterations of its loop on a
\* text that starts with a newline
C36_Witness ==
    /\ splitPc = "done"
    /\ splitBudget >= 1
    /\ Len(splitText) = MaxLen /\ splitText[1] = "nl"
    /\ Len(TextEncode(splitText)) > 2 * splitBudget
    /\ splitBuffer # TextEncode(splitText)

\* C12: decoding the binary frame built from a header map and a payload
\* gives back exactly that header map and that payload.
C12_RoundTrip ==
    binPc = "decoded" => binOut = [headers |-> binHeaders, data |-> binPayload]

(***************************************************************************)
(* Claims about BrowserCommunicate                                         *)
(***************************************************************************)
Running == {g \in Calls : gen[g] = "running"}

\* C1: once stream() has been started on the instance, the first pull of any
\* later stream() generator throws, and neither opens a socket nor touches the
\* running stream, whatever state that one is in.
C1_SecondStreamFails ==
    [][\A g \in Calls :
          (streamWasCalled /\ gen[g] = "fresh" /\ gen'[g] # "fresh")
              => /\ gen'[g] = "failed"
                 /\ genErr'[g] = "ProtocolMisuse"
                 /\ UNCHANGED <<pc, attempt, segIdx, wsState, timerArmed>>]_vars

C1_Witness ==
    \E g, h \in Calls :
        /\ genErr[g] = "ProtocolMisuse"
        /\ gen[h] = "running"
        /\ pc = "loop"
        /\ wsState[segIdx] = "open"

\* C2: when the socket of the running segment closes, the stream fails
\* with NoAudioReceived if no audio chunk was yielded for this segment, and
\* otherwise goes on, without error, to the next segment or to the end.
C2_CloseOutcomePerSegment ==
    [][(pc = "loop" /\ wsState[segIdx] # "closed" /\ wsState'[segIdx] = "closed")
          => IF audioYielded = 0
             THEN /\ pc' = "failed"
                  /\ \A g \in Running : genErr'[g] = "NoAudioReceived"
             ELSE /\ pc' = "texts"
                  /\ UNCHANGED <<gen, genErr>>]_vars

C2_Witness ==
    /\ segIdx = 2
    /\ pc = "failed"
    /\ \E g \in Calls : genErr[g] = "NoAudioReceived"

\* C16: sourceBuffer.appendBuffer is called only while the source buffer is
\* not updating, whichever of a chunk's arrival, an 'updateend' event or the
\* 100 ms retry timer runs appendNextChunk, so that two appends are never in
\* flight
C16_AppendWhenIdle == [][appended' # appended => ~sbUpdating]_vars

\* two chunks were appended, the second while the first was no longer in
\* flight, after an appendBuffer call threw and its retry timer fired
C16_Witness == appended = 2 /\ sbUpdating /\ appendErrors = 1 /\ retryTimers = 0

\* C18: at most one session is active at any time, it is the one the
\* player's currentTTSDeactivate and audio element belong to, the media
\* source of every other session is closed, and a session appends to its
\* source buffer only while it is that session, however initTTS calls,
\* play() calls and stop() interleave with the chunks of the sessions
C18_OneActiveSession ==
    /\ [](/\ Cardinality({p \in Sessions : sActive[p]}) <= 1
          /\ \A p \in Sessions :
                /\ sActive[p] => (currentTTSDeactivate = p /\ audioElementOf = p)
                /\ sMedia[p] = "open" => sActive[p])
    /\ [][\A p \in Sessions :
             sAppended'[p] # sAppended[p] => (sActive[p] /\ audioElementOf = p)]_vars

\* a second play() started while the first session was streaming: the
\* second session is active and has appended, the first one is inactive,
\* its media source closed, with a chunk it had no time to append
C18_Witness ==
    /\ nPlays = 2
    /\ sActive[2] /\ sAppended[2] >= 1
    /\ ~sActive[1] /\ sAppended[1] >= 1 /\ sMedia[1] = "closed" /\ sChunks[1] >= 1

\* the session of play() has been deactivated (by stop(), whose cleanup()
\* does it)
Deactivated == playPc # "idle" /\ ~isActive

\* C19: after stop() the connection of the session is torn down: in the end
\* no socket of its stream is open or closing, no no-data timer is pending
\* and the audio element is cleared
C19_TornDown ==
    Deactivated ~> (/\ \A s \in Segs : wsState[s] \in {"none", "closed"} /\ ~timerArmed[s]
                    /\ audioElement = "null")

\* C20: a deactivated session produces nothing further: it appends no
\* chunk, does not signal the end of the stream, reports no error and does
\* not reject, whatever its stream does afterwards
C20_SilentOnceDeactivated ==
    [][Deactivated =>
          /\ appended' = appended
          /\ msState' = "ended" => msState = "ended"
          /\ uiState' = "ERROR" => uiState = "ERROR"
          /\ promise' = "rejected" => promise = "rejected"]_vars

\* C21: a failure of the stream of a session makes the offscreen document
\* send exactly one 'error' playback state
C21_OneErrorState ==
    [][(pc' = "failed" /\ pc # "failed") => errorStates' = errorStates + 1]_vars

\* C22: PLAYING is reported only once a first chunk has been appended,
\* whatever the caller does, togglePause() while loading included
C22_PlayingAfterFirstAppend == uiState = "PLAYING" => appended >= 1

\* C23: every chunk pushed on the queue is appended, is still queued, or is
\* the one chunk an appendBuffer call that threw was given
C23_FailureDropsOneChunk == enqueued = appended + appendErrors + chunks

C25_DrainCompletes ==
    (pc = "done" /\ playPc = "draining")
        ~> (~isActive \/ (chunks = 0 /\ msState = "ended" /\ promise = "resolved"))

C27_DestroyedOnError == uiState = "ERROR" => (~isActive /\ audioElement = "null")

\* C28: a session stopped while connectWebSocket is in an attempt or backing
\* off makes no further attempt and its stream does not go on to send the
\* configuration and the SSML request
C28_RetryLoopCancelled ==
    [][(Deactivated /\ pc \in {"connect", "backoff"})
          => (attempt' <= attempt /\ pc' # "loop")]_vars

\* C3: a single-segment text whose socket received one valid audio frame and
\* then turn.end is played without error: stream() does not fail, play() is
\* not rejected and reports no error, and once play() has resolved exactly
\* one chunk was appended and the end of the stream signalled (no stop(),
\* and no appendBuffer call that threw).
C3_OneChunkPlayed ==
    (nSegs = 1 /\ received = "audio,turn.end" /\ isActive /\ appendErrors = 0)
        => /\ pc # "failed"
           /\ promise # "rejected"
           /\ uiState # "ERROR"
           /\ promise = "resolved" => (appended = 1 /\ msState = "ended")

\* C4: on one connection, chunks are yielded in the order in which their
\* frames arrived.
C4_ArrivalOrder ==
    [][lastYieldN' = 0 \/ lastYieldN' >= lastYieldN]_vars

\* C5: an Error queued for a segment ends stream(): the stream neither
\* completes normally nor goes on to a later segment.
C5_ErrorAborts ==
    errSeg # 0 => (pc # "done" /\ segIdx = errSeg)

\* C13: a binary frame whose length prefix exceeds its bytes is rejected
\* with an error that aborts the stream: while such a frame, received on a
\* segment, awaits its rejection, the stream has neither completed normally
\* nor gone on to a later segment.
C13_TruncatedFrameAborts ==
    \A r \in readers :
        r.item = BinaryItem(TruncatedFrame, r.item.n) => (pc # "done" /\ segIdx = r.seg)

\* C14: connectWebSocket makes at most 3 attempts; a new attempt starts only
\* when the backoff wait after the failed one has elapsed; ConnectionError is
\* thrown only when the third attempt fails; after a successful attempt no
\* further attempt is made for the segment.
C14_ThreeAttempts ==
    [][/\ attempt' <= 3
       /\ (attempt >= 1 /\ attempt' = attempt + 1)
              => (pc = "backoff" /\ Len(waited') = attempt)
       /\ (pc = "connect" /\ pc' = "failed")
              => /\ attempt = 3
                 /\ Len(waited) = 2
                 /\ \A g \in Running : genErr'[g] = "ConnectionError"
       /\ pc = "loop" => pc' \notin {"connect", "backoff"}]_vars

C14_Witness ==
    /\ pc = "failed"
    /\ attempt = 3
    /\ \E g \in Calls : genErr[g] = "ConnectionError"

\* C15 as stated: the delays waited are 1 s, 2 s and 4 s, all three of them
\* when every attempt fails.
C15_OneTwoFour ==
    (pc = "failed" /\ \E g \in Calls : genErr[g] = "ConnectionError")
        => waited = <<1, 2, 4>>

\* C15 amended: the wait after failed attempt k is 2^(k-1) seconds for k = 1
\* and k = 2 only; no wait follows the third failure, so when every attempt
\* fails the delays waited are 1 s and 2 s.
C15_OneTwo ==
    /\ \A k \in 1..Len(waited) : k <= 2 /\ waited[k] = 2 ^ (k - 1)
    /\ (pc = "failed" /\ \E g \in Calls : genErr[g] = "ConnectionError")
           => waited = <<1, 2>>

C15_Witness ==
    /\ pc = "failed"
    /\ waited = <<1, 2>>
    /\ \E g \in Calls : genErr[g] = "ConnectionError"
    /\ segIdx >= 2

\* C29: the no-data timer of a connection is armed only when its socket
\* opens, is pending only while nothing (message, error, close) has been
\* heard on the socket, and so expires only on a connection that was silent
\* until then
C29_TimerUntilFirstEvent ==
    /\ [](\A s \in Segs :
             /\ expiry[s] # "heard"
             /\ timerArmed[s] => (~heard[s] /\ wsState[s] = "open"))
    /\ [][\A s \in Segs :
             (timerArmed'[s] /\ ~timerArmed[s]) => (wsState[s] = "none" /\ wsState'[s] = "open")]_vars

\* a socket still open whose timer the first of two messages cancelled
C29_Witness ==
    \E s \in Segs :
        /\ wsState[s] = "open" /\ heard[s] /\ arrived >= 2
        /\ ~timerArmed[s] /\ expiry[s] = "none"

\* C30: once the no-data timer of a segment has expired its socket is
\* closing or closed, that segment has had its one outcome, stream() has
\* failed with Timeout (not with NoAudioReceived when the close event
\* follows) and no later segment is attempted
C30_TimeoutAborts ==
    \A s \in Segs :
        expiry[s] # "none"
            => /\ wsState[s] \in {"closing", "closed"}
               /\ outcomes[s] = 1
               /\ pc = "failed" /\ segIdx = s
               /\ \E g \in Calls : genErr[g] = "Timeout"
               /\ \A g \in Calls : genErr[g] # "NoAudioReceived"

\* the timer of the first of two segments expired and its socket has closed
C30_Witness ==
    /\ nSegs = 2 /\ expiry[1] = "silent" /\ wsState[1] = "closed"
    /\ pc = "failed" /\ \E g \in Calls : genErr[g] = "Timeout"

\* C17: the _stream of a segment ends at most once on what its connection
\* delivers (a break on 'close' after audio, NoAudioReceived, or the Error
\* pushed by onerror or by the no-data timer), also when the socket raises
\* an error event and then a close event, or the timer fires and the
\* socket then closes
C17_OneOutcome == \A s \in Segs : outcomes[s] <= 1

\* the stream failed on the error event or the timer of a segment whose
\* socket has closed since
C17_Witness ==
    \E s \in Segs :
        /\ outcomes[s] = 1
        /\ wsState[s] = "closed"
        /\ errSeg = s
        /\ pc = "failed"
        /\ \E g \in Calls : genErr[g] \in {"WebSocketError", "Timeout"}

\* C6: the socket of segment N+1 is not opened before the socket of segment N
\* is closed, so no two segment sockets are open together.
C6_Sequential ==
    \A s \in Segs : s > 1 /\ wsState[s] # "none" => wsState[s - 1] = "closed"

C6_Witness ==
    /\ wsState[1] = "closed"
    /\ wsState[2] = "open"

\* C7: offsetCompensation never decreases.
C7_Monotone ==
    [][offsetCompensation' >= offsetCompensation]_vars

C7_Witness ==
    /\ turnEnds >= 2
    /\ offsetCompensation >= 2

\* C8 as stated: every turn.end adds the lastDurationOffset in effect to
\* offsetCompensation, which is thus the sum of those values.
C8_TurnEndAdds ==
    [][turnEnds' = turnEnds + 1
          => offsetCompensation' = offsetCompensation + lastDurationOffset]_vars

\* C8 amended: turn.end assigns lastDurationOffset (already compensated) to
\* offsetCompensation, so that offsetCompensation is the sum, over the turn.end
\* frames handled, of the uncompensated Offset + Duration of the last
\* WordBoundary decoded since the turn.end before (0 when there was none).
C8_SumOfRawEnds ==
    /\ offsetCompensation = rawEndSum
    /\ lastDurationOffset = offsetCompensation + rawLast

C8_Witness ==
    /\ turnEnds >= 2
    /\ offsetCompensation >= 2
    /\ rawLast = 0

\* C34: every turn.end leaves offsetCompensation equal to lastDurationOffset,
\* the compensated end (Offset + compensation at decode time + Duration) of
\* the WordBoundary decoded last on the instance: the compensation in effect
\* plus the uncompensated end of the WordBoundary decoded since the turn.end
\* before, and unchanged when there was none
C34_TurnEndAssignsLastEnd ==
    [][turnEnds' = turnEnds + 1 =>
          /\ offsetCompensation' = lastDurationOffset
          /\ lastDurationOffset' = lastDurationOffset
          /\ offsetCompensation' = offsetCompensation + rawLast
          /\ rawLast = 0 => offsetCompensation' = offsetCompensation]_vars

\* audio, a WordBoundary and turn.end on the first segment, then turn.end as
\* the first frame of the second: two turn.end frames in a row
C34_Witness ==
    /\ turnEnds = 2 /\ arrived = 4
    /\ segIdx = 2 /\ pc = "loop" /\ lastYieldN = 0
    /\ offsetCompensation = 2 /\ lastDurationOffset = 2

\* C35: the promise of every play() is settled in the end, also when the
\* session was stopped before its stream finished
C35_PlaySettles ==
    (promise = "pending" /\ Deactivated) ~> promise \in {"resolved", "rejected"}

Pushed == decPc = "pushed"

\* an audio.metadata frame has been decoded
MetadataDecoded == Pushed /\ decIn.type = "text" /\ decIn.path = "audio.metadata"

\* a binary frame has been decoded
BinaryDecoded == Pushed /\ decIn.type = "binary"

\* C31: an audio.metadata frame whose Metadata array holds only SessionEnd
\* entries, or none at all, pushes nothing on messageQueue: no event and no
\* error, so that the stream goes on
C31_SessionEndBenign ==
    (MetadataDecoded /\ \A i \in DOMAIN decIn.meta : decIn.meta[i].Type = "SessionEnd")
        => decItem = NoItem

\* the first entry of a Metadata array that is not a SessionEnd (0: none)
FirstDeciding(meta) ==
    LET deciding == {i \in DOMAIN meta : meta[i].Type # "SessionEnd"}
    IN  IF deciding = {} THEN 0 ELSE CHOOSE i \in deciding : \A j \in deciding : i <= j

\* C32: metadata decoding scans the array in order and stops at the first
\* WordBoundary: the event has its Offset plus the offsetCompensation of that
\* moment and its Duration; an entry of another type than WordBoundary and
\* SessionEnd met before it gives an UnknownResponse error instead
C32_FirstWordBoundary ==
    (MetadataDecoded /\ FirstDeciding(decIn.meta) # 0) =>
        LET metaObj == decIn.meta[FirstDeciding(decIn.meta)]
        IN  IF metaObj.Type = "WordBoundary"
            THEN decItem = BoundaryItem(1, metaObj.Offset + decComp, metaObj.Duration)
            ELSE decItem = ErrorItem(1, "UnknownResponse")

\* a SessionEnd is skipped and the WordBoundary after it decoded with a
\* compensation of 2
C32_Witness ==
    /\ MetadataDecoded
    /\ decIn.meta = <<Entry("SessionEnd", 0, 0), Entry("WordBoundary", 1, 1)>>
    /\ decComp = 2
    /\ decItem = BoundaryItem(1, 3, 1)

\* C33: a binary frame on Path audio with a payload gives an audio event
\* when its Content-Type is absent, audio/mpeg or starts with audio/webm, and
\* UnexpectedResponse when a Content-Type is present and is neither; with an
\* empty payload it gives nothing whatever the Content-Type; a binary frame
\* on another Path gives UnexpectedResponse
C33_AudioFrameValidation ==
    (BinaryDecoded /\ Intact(decIn)) =>
        IF decIn.path # "audio" THEN decItem = ErrorItem(1, "UnexpectedResponse")
        ELSE IF decIn.payload = <<>> THEN decItem = NoItem
        ELSE IF decIn.ctype \in {"", "audio/mpeg", "audio/webm", "audio/webm; codec=opus"}
             THEN decItem = AudioItem(1)
             ELSE decItem = ErrorItem(1, "UnexpectedResponse")

\* an audio frame without Content-Type read from a Blob was taken as audio
C33_Witness ==
    /\ BinaryDecoded /\ Intact(decIn) /\ decBt = "blob"
    /\ decIn.path = "audio" /\ decIn.ctype = "" /\ decIn.payload # <<>>
    /\ decItem = AudioItem(1)

\* C39: for the same bytes the ArrayBuffer branch and the Blob branch of
\* onmessage push the same item: what one branch pushed is what the other
\* one pushes for these bytes
C39_BranchesAgree ==
    BinaryDecoded =>
        decItem = IF decBt = "blob"
                  THEN ArrayBufferItem(FrameOf(BrowserBufferFrom(decBytes)), 1)
                  ELSE BinaryItem(FrameOf(CopyBytes(decBytes)), 1)

\* a Blob that holds an audio frame with a Content-Type neither branch
\* accepts was refused
C39_Witness ==
    /\ BinaryDecoded /\ Intact(decIn) /\ decBt = "blob"
    /\ decIn.path = "audio" /\ decIn.ctype = "audio/ogg" /\ decIn.payload # <<>>
    /\ decItem = ErrorItem(1, "UnexpectedResponse")

\* a creation is in flight: createDocument was called and its promise is
\* not settled
CreationInFlight == \E c \in Setups : oPc[c] = "creating"

\* C38: offscreen.createDocument is never called while an offscreen
\* document exists or while another creation is in flight, however the
\* calls of setupOffscreenDocument, the answers to the existence check and
\* the end of the creation interleave
C38_NoSecondCreate ==
    [][oCreates' = oCreates + 1 => (~docExists /\ ~CreationInFlight)]_vars

====
